---- MODULE Spec2Model ----
(***************************************************************************)
(* Shape-tree evaluation engine of scripts/sdf_extraction.py and the       *)
(* chunked batch driver of scripts/batch_sdf_jobs.py.                      *)
(*                                                                         *)
(* Numbers: the program computes in float64.  Here a real number x is the  *)
(* integer x * Unit (three decimal places), products and quotients are     *)
(* rounded down to that grid.  All default-table values of the program are *)
(* exact on this grid.                                                     *)
(***************************************************************************)
EXTENDS Integers, Sequences, FiniteSets, TLC

\* a direct call of the library: its arguments, its progress, its results
VARIABLES spec, points, pc, resolved, again, result

\* a run of the batch program: the command line, the job list, the job in
\* hand and where it stands, its locals, the scratch and output directories,
\* the memory-mapped field, the slab offset, the error that ended the run,
\* and what the run has done so far
VARIABLES args, jobs, ji, jpc, cur, shape_spec, files, outputs, field, z0,
          jerr, jlog

\* two workers running one job each on one scratch directory: each worker's
\* job, position and locals; the directory (path -> file); the files (their
\* creator and cells); what a worker did to a file another worker created
VARIABLES workers, scratch, inodes, foreign

evars == <<spec, points, pc, resolved, again, result>>

pvars == <<workers, scratch, inodes, foreign>>

jvars == <<args, jobs, ji, jpc, cur, shape_spec, files, outputs, field, z0,
           jerr, jlog>>

vars == <<evars, jvars, pvars>>

(***************************************************************************)
(* Bounds                                                                  *)
(***************************************************************************)
MaxChildren == 3

MaxDepth == 3

(***************************************************************************)
(* Fixed-point arithmetic standing for float64                             *)
(***************************************************************************)
Unit == 1000

FMul(a, b) == (a * b) \div Unit

FDiv(a, b) == (a * Unit) \div b

Abs(a) == IF a < 0 THEN -a ELSE a

Min2(a, b) == IF b < a THEN b ELSE a

Max2(a, b) == IF b > a THEN b ELSE a

RECURSIVE SqrtSearch(_, _, _)
SqrtSearch(n, lo, hi) ==
    IF lo >= hi THEN lo
    ELSE LET mid == (lo + hi + 1) \div 2
         IN  IF mid * mid <= n THEN SqrtSearch(n, mid, hi)
                               ELSE SqrtSearch(n, lo, mid - 1)

\* floor of the square root, n in 0 .. 2^31 - 1
ISqrt(n) == SqrtSearch(n, 0, 46340)

\* np.linalg.norm(points, axis=1) for one row
Norm(v) == ISqrt(v[1] * v[1] + v[2] * v[2] + v[3] * v[3])

VSub(a, b) == <<a[1] - b[1], a[2] - b[2], a[3] - b[3]>>

VDivS(a, s) == <<FDiv(a[1], s), FDiv(a[2], s), FDiv(a[3], s)>>

(***************************************************************************)
(* Registry and default tables                                             *)
(***************************************************************************)
SDF_EVALUATORS ==
    {"sdf_sphere", "sdf_plane", "sdf_round_box", "sdf_sphere_sine",
     "sdf_fbm_noise", "sdf_fbm_noise_sphere", "sdf_menger_sponge",
     "sdf_capped_cylinder", "sdf_mandelbulb", "sdf_julia",
     "sdf_union", "sdf_intersection", "sdf_difference"}

BASE_DEFAULTS == [translate |-> <<0, 0, 0>>, scale |-> 1000]

WarpDefault == << <<0, 800, 600>>, <<-800, 360, -480>>, <<-600, -480, 640>> >>

DEFAULT_SHAPE_PARAMS ==
    [sdf_sphere |-> [radius |-> 1000],
     sdf_plane |-> [normal |-> <<0, 1000, 0>>, offset |-> 0],
     sdf_round_box |-> [half_extent |-> <<1000, 1000, 1000>>, radius |-> 250],
     sdf_sphere_sine |->
        [radius |-> 1000, displacement_freq |-> <<1000, 1000, 1000>>,
         displacement_amp |-> 1000,
         displacement_axis_amp |-> <<1000, 1000, 1000>>],
     sdf_fbm_noise |->
        [half_extent |-> <<1000, 1000, 1000>>, corner_radius |-> 100,
         offset |-> <<500, 500, 500>>, octaves |-> 6, frequency |-> 2000,
         gain |-> 550, blend |-> 150, warp_matrix |-> WarpDefault,
         noise_variant |-> "lattice"],
     sdf_fbm_noise_sphere |->
        [radius |-> 1100, offset |-> <<500, 500, 500>>, octaves |-> 6,
         frequency |-> 2000, gain |-> 550, blend |-> 150,
         warp_matrix |-> WarpDefault, noise_variant |-> "lattice"],
     sdf_menger_sponge |-> [half_size |-> 1000, iterations |-> 4],
     sdf_capped_cylinder |-> [radius |-> 1000, half_height |-> 1000],
     sdf_mandelbulb |->
        [power |-> 8000, max_iterations |-> 12, bailout |-> 8000,
         solid_radius |-> 0],
     sdf_julia |->
        [constant |-> <<355, 355, 355>>, max_iterations |-> 25,
         bailout |-> 6000, solid_radius |-> 0],
     sdf_union |-> << >>,
     sdf_intersection |-> << >>,
     sdf_difference |-> << >>]

\* variant: no type has a table of its own
TypeDefaultsNone(shape_type) == << >>

\* dict.get(shape_type, {})
TypeDefaults(shape_type) ==
    IF shape_type \in DOMAIN DEFAULT_SHAPE_PARAMS
    THEN DEFAULT_SHAPE_PARAMS[shape_type] ELSE << >>

(***************************************************************************)
(* Dictionaries are functions on a finite set of key strings               *)
(***************************************************************************)
\* for key, value in src.items(): dst[key] = value
Overlay(dst, src) ==
    [k \in DOMAIN dst \cup DOMAIN src |->
        IF k \in DOMAIN src THEN src[k] ELSE dst[k]]

Restrict(d, keys) == [k \in keys |-> d[k]]

Ok(v) == [ok |-> TRUE, val |-> v]

Err(e, path) == [ok |-> FALSE, err |-> e, at |-> path]

\* index of the first failing entry of a sequence of results, 0 if none
FirstFailure(rs) ==
    IF \A i \in 1..Len(rs) : rs[i].ok THEN 0
    ELSE CHOOSE i \in 1..Len(rs) :
            ~rs[i].ok /\ \A j \in 1..(i - 1) : rs[j].ok

(***************************************************************************)
(* merge_defaults                                                          *)
(***************************************************************************)
\* variant: the default layers are applied after the caller's keys
MergeKeysDefaultsLast(s) ==
    LET shape_type == s["type"]
        m0 == [k \in {"type"} |-> shape_type]
        m1 == Overlay(m0, Restrict(s, DOMAIN s \ {"type", "children"}))
        m2 == Overlay(m1, BASE_DEFAULTS)
    IN  Overlay(m2, TypeDefaults(shape_type))

\* the keys of one node: base defaults, then the type's table, then the
\* caller's own keys except type and children
MergeKeys(s) ==
    LET shape_type == s["type"]
        m0 == [k \in {"type"} |-> shape_type]
        m1 == Overlay(m0, BASE_DEFAULTS)
        m2 == Overlay(m1, TypeDefaults(shape_type))
    IN  Overlay(m2, Restrict(s, DOMAIN s \ {"type", "children"}))

\* variant: the last child is skipped
ChildrenOfButLast(s) == SubSeq(s["children"], 1, Len(s["children"]) - 1)

\* the children the resolver iterates over, in this order
ChildrenOf(s) == s["children"]

\* variant: children are copied into the result without being resolved
RECURSIVE MergeAtShallow(_, _)
MergeAtShallow(s, path) ==
    IF "type" \notin DOMAIN s THEN Err("MissingType", path)
    ELSE IF s["type"] \notin SDF_EVALUATORS THEN Err("UnknownShapeType", path)
    ELSE
      IF "children" \in DOMAIN s
      THEN Ok(Overlay(MergeKeys(s), [k \in {"children"} |-> ChildrenOf(s)]))
      ELSE Ok(MergeKeys(s))

RECURSIVE MergeAt(_, _)
MergeAt(s, path) ==
    IF "type" \notin DOMAIN s THEN Err("MissingType", path)
    ELSE IF s["type"] \notin SDF_EVALUATORS THEN Err("UnknownShapeType", path)
    ELSE
      IF "children" \in DOMAIN s
      THEN LET ch == ChildrenOf(s)
               rs == [i \in 1..Len(ch) |-> MergeAt(ch[i], Append(path, i))]
               f  == FirstFailure(rs)
           IN  IF f # 0 THEN rs[f]
               ELSE Ok(Overlay(MergeKeys(s),
                       [k \in {"children"} |->
                           [i \in 1..Len(ch) |-> rs[i].val]]))
      ELSE Ok(MergeKeys(s))

merge_defaults(s) == MergeAt(s, << >>)

(***************************************************************************)
(* Evaluation.  A result is [ok, vals, trace] or [ok, err, at, trace];     *)
(* trace lists, in program order, every entry into                         *)
(* _evaluate_shape_recursive (<<"eval", path>>) and every call of a        *)
(* registered evaluator (<<"kernel", path>>).                              *)
(***************************************************************************)
Vals(v, tr) == [ok |-> TRUE, vals |-> v, trace |-> tr]

Raise(e, path, tr) == [ok |-> FALSE, err |-> e, at |-> path, trace |-> tr]

sdf_sphere(lp, params, path, tr) ==
    IF "radius" \notin DOMAIN params THEN Raise("KeyError", path, tr)
    ELSE Vals([i \in 1..Len(lp) |-> Norm(lp[i]) - params["radius"]], tr)

(***************************************************************************)
(* Plane                                                                   *)
(***************************************************************************)
\* 1e-12 lies below the smallest positive value of the grid, so
\* norm <= 1e-12 holds exactly when norm is zero
PlaneEps == 0

\* variant: the caller's normal is used as it is
PlaneNormalAsGiven(normal, norm) == normal

\* the unit normal: +Y for a normal of no length, normal / norm otherwise
PlaneNormal(normal, norm) ==
    IF norm <= PlaneEps THEN <<0, Unit, 0>>
    ELSE [c \in 1..3 |-> FDiv(normal[c], norm)]

\* points @ normal
Dot(p, n) == FMul(p[1], n[1]) + FMul(p[2], n[2]) + FMul(p[3], n[3])

PlaneRows(lp, normal, offset) == [i \in 1..Len(lp) |-> Dot(lp[i], normal) + offset]

sdf_plane(lp, params, path, tr) ==
    IF ~({"normal", "offset"} \subseteq DOMAIN params)
    THEN Raise("KeyError", path, tr)
    ELSE Vals(PlaneRows(lp, PlaneNormal(params["normal"],
                                        Norm(params["normal"])),
                        params["offset"]),
              tr)

(***************************************************************************)
(* 64-bit integers (np.int64, wrapping) as eight base-256 digits, least    *)
(* significant first                                                       *)
(***************************************************************************)
RECURSIVE DigitsOf(_, _)
DigitsOf(v, k) == IF k = 0 THEN << >> ELSE <<v % 256>> \o DigitsOf(v \div 256, k - 1)

\* two's complement of an integer of small magnitude
ToInt64(v) ==
    IF v >= 0 THEN DigitsOf(v, 8)
    ELSE LET m == DigitsOf(-v - 1, 8) IN [i \in 1..8 |-> 255 - m[i]]

RECURSIVE Carry(_, _, _)
Carry(cols, i, c) ==
    IF i > 8 THEN << >>
    ELSE <<(cols[i] + c) % 256>> \o Carry(cols, i + 1, (cols[i] + c) \div 256)

Add64(a, b) == Carry([i \in 1..8 |-> a[i] + b[i]], 1, 0)

RECURSIVE ColumnSum(_, _, _, _)
ColumnSum(a, b, k, i) ==
    IF i > k THEN 0 ELSE a[i] * b[k + 1 - i] + ColumnSum(a, b, k, i + 1)

Mul64(a, b) == Carry([k \in 1..8 |-> ColumnSum(a, b, k, 1)], 1, 0)

RECURSIVE XorByte(_, _)
XorByte(a, b) ==
    IF a = 0 /\ b = 0 THEN 0
    ELSE ((a + b) % 2) + 2 * XorByte(a \div 2, b \div 2)

Xor64(a, b) == [i \in 1..8 |-> XorByte(a[i], b[i])]

\* n << 13
Shl13(a) == Mul64(a, ToInt64(8192))

\* nn & 0x7FFFFFFF
Low31(a) == a[1] + 256 * a[2] + 65536 * a[3] + 16777216 * (a[4] % 128)

\* hash_vec3 for one row of three lattice indices; the quotient by 2^30 is
\* taken on the ten leading bits of the 31-bit value
\* 13_763_125_899
HashPrime == <<139, 162, 88, 52, 3, 0, 0, 0>>

\* n = x * 15731 + y * 789_221 + z * 13_763_125_899
HashSeed(cell) ==
    Add64(Add64(Mul64(ToInt64(cell[1]), ToInt64(15731)),
                Mul64(ToInt64(cell[2]), ToInt64(789221))),
          Mul64(ToInt64(cell[3]), HashPrime))

\* n = (n << 13) ^ n
HashShift(n) == Xor64(Shl13(n), n)

\* nn = n * (n * n * 15731 + 789_221) + 13_763_125_899
HashPoly(n) ==
    Add64(Mul64(n, Add64(Mul64(Mul64(n, n), ToInt64(15731)),
                         ToInt64(789221))),
          HashPrime)

\* variant: the masked value is divided by 2^29
hash_vec3Half(cell) ==
    Unit - ((Low31(HashPoly(HashShift(HashSeed(cell)))) \div 1048576) * Unit)
               \div 512

hash_vec3(cell) ==
    Unit - ((Low31(HashPoly(HashShift(HashSeed(cell)))) \div 1048576) * Unit)
               \div 1024

(***************************************************************************)
(* Noise                                                                   *)
(***************************************************************************)
MinOf(S) == CHOOSE x \in S : \A y \in S : x <= y

\* np.floor of one coordinate, as an integer
Floor(x) == x \div Unit

\* smooth_max(a, b, k)
smooth_max(a, b, k) ==
    IF k <= 0 THEN Max2(a, b)
    ELSE LET diff == Abs(a - b)
             h == Max2(0, Min2(Unit, FDiv(k - diff, k)))
         IN  Max2(a, b) + FMul(FMul(FMul(250, h), h), k)

\* sd_base_lattice for one row
\* np.square(np.abs(hashes)) * 0.7
LatticeRadius(hashes) == FMul(FMul(Abs(hashes), Abs(hashes)), 700)

\* dist for one corner of the cell
LatticeDist(pt, corner) ==
    Norm([c \in 1..3 |-> (pt[c] - Floor(pt[c]) * Unit) - corner[c] * Unit])
        - LatticeRadius(hash_vec3([c \in 1..3 |-> Floor(pt[c]) + corner[c]]))

sd_base_lattice(pt) ==
    MinOf({LatticeDist(pt, <<dx, dy, dz>>) :
              dx \in {0, 1}, dy \in {0, 1}, dz \in {0, 1}})

\* k1 = 1.0 / 3.0 and k2 = 1.0 / 6.0
SimplexK1 == FDiv(Unit, 3 * Unit)
SimplexK2 == FDiv(Unit, 6 * Unit)

\* i = np.floor(points + sum_coords * k1)
SimplexCell(pt) ==
    [c \in 1..3 |-> Floor(pt[c] + FMul(pt[1] + pt[2] + pt[3], SimplexK1))]

\* d0 = points - (i - t), t = sum(i) * k2
SimplexD0(pt, i) ==
    [c \in 1..3 |-> pt[c] - (i[c] * Unit - (i[1] + i[2] + i[3]) * SimplexK2)]

\* sph(delta, r)
SimplexSph(delta, r) == Norm(delta) - FMul(550, FMul(r, r))

\* the four spheres, from d0, i and the comparisons ex, ey, ez
SimplexMin(d0, i, ex, ey, ez) ==
    LET i1 == <<ex * (1 - ez), ey * (1 - ex), ez * (1 - ey)>>
        i2 == <<1 - ex * (1 - ez), 1 - ey * (1 - ex), 1 - ez * (1 - ey)>>
        d1 == [c \in 1..3 |-> d0[c] - i1[c] * Unit + SimplexK2]
        d2 == [c \in 1..3 |-> d0[c] - i2[c] * Unit + 2 * SimplexK2]
        d3 == [c \in 1..3 |-> d0[c] - 500]
        r0 == hash_vec3(i)
        r1 == hash_vec3([c \in 1..3 |-> i[c] + i1[c]])
        r2 == hash_vec3([c \in 1..3 |-> i[c] + i2[c]])
        r3 == hash_vec3([c \in 1..3 |-> i[c] + 1])
    IN  MinOf({SimplexSph(d0, r0), SimplexSph(d1, r1), SimplexSph(d2, r2),
               SimplexSph(d3, r3)})

\* ex, ey, ez of d0
SimplexOrder(d0, i) ==
    SimplexMin(d0, i, IF d0[2] < d0[1] THEN 1 ELSE 0,
               IF d0[3] < d0[2] THEN 1 ELSE 0,
               IF d0[1] < d0[3] THEN 1 ELSE 0)

SimplexAt(pt, i) == SimplexOrder(SimplexD0(pt, i), i)

\* sd_base_simplex for one row
sd_base_simplex(pt) == SimplexAt(pt, SimplexCell(pt))

\* str.lower() on the spellings a caller uses
Lower(v) ==
    CASE v = "Simplex" -> "simplex"
      [] v = "Lattice" -> "lattice"
      [] OTHER -> v

\* one row of warped @ warp_matrix.T
MatVec(w, v) ==
    [j \in 1..3 |-> FMul(v[1], w[j][1]) + FMul(v[2], w[j][2]) + FMul(v[3], w[j][3])]

\* sd_base_simplex or sd_base_lattice of one row
FbmBase(use_simplex, pt) ==
    IF use_simplex THEN sd_base_simplex(pt) ELSE sd_base_lattice(pt)

\* noise = amp * base, base taken at warped * freq
FbmNoise(st, a) ==
    [i \in 1..Len(st.warped) |->
        FMul(st.amp, FbmBase(a.use_simplex,
                             [c \in 1..3 |-> FMul(st.warped[i][c], st.freq)]))]

\* the rest of one round: result, warped, amp and freq are rebound
FbmRound(st, a, noise) ==
    [points |-> st.points,
     base_distance |-> st.base_distance,
     result |-> [i \in 1..Len(noise) |->
                    smooth_max(st.result[i], -noise[i], FMul(a.blend, st.amp))],
     warped |-> [i \in 1..Len(st.warped) |->
                    MatVec(a.warp_matrix, st.warped[i])],
     amp |-> FMul(st.amp, a.gain),
     freq |-> FMul(st.freq, a.frequency)]

\* `for _ in range(octaves)`, rounds k+1 .. octaves
RECURSIVE FbmLoop(_, _, _)
FbmLoop(st, k, a) ==
    IF k >= a.octaves
    THEN [result |-> st.result, rounds |-> k, points |-> st.points,
          base_distance |-> st.base_distance]
    ELSE
      FbmLoop(FbmRound(st, a, FbmNoise(st, a)), k + 1, a)

\* variant: at least one round is made
sd_fbmAtLeastOnce(pts, base_distance, octaves, frequency, gain, blend, warp_matrix, variant) ==
    FbmLoop([points |-> pts, base_distance |-> base_distance,
             result |-> base_distance, warped |-> pts,
             amp |-> Unit, freq |-> Unit], 0,
            [octaves |-> Max2(octaves, 1), frequency |-> frequency,
             gain |-> gain, blend |-> blend, warp_matrix |-> warp_matrix,
             use_simplex |-> (Lower(variant) = "simplex")])

\* sd_fbm: result and warped start as copies of base_distance and points
\* and every round rebinds them; the record returned holds the value
\* returned, the rounds made and the caller's two arrays after the call
sd_fbm(pts, base_distance, octaves, frequency, gain, blend, warp_matrix, variant) ==
    FbmLoop([points |-> pts, base_distance |-> base_distance,
             result |-> base_distance, warped |-> pts,
             amp |-> Unit, freq |-> Unit], 0,
            [octaves |-> octaves, frequency |-> frequency,
             gain |-> gain, blend |-> blend, warp_matrix |-> warp_matrix,
             use_simplex |-> (Lower(variant) = "simplex")])

\* signed distance of the box |p| <= half_extent rounded by r, one row
RoundBox(pt, half_extent, r) ==
    LET q == [c \in 1..3 |-> Abs(pt[c]) - half_extent[c] + r]
        q_max == [c \in 1..3 |-> Max2(q[c], 0)]
        inner == Min2(Max2(Max2(q[1], q[2]), q[3]), 0)
    IN  Norm(q_max) + inner - r

sdf_fbm_noise(lp, params, path, tr) ==
    IF ~({"half_extent", "corner_radius", "offset", "octaves", "frequency",
          "gain", "blend", "warp_matrix", "noise_variant"}
            \subseteq DOMAIN params)
    THEN Raise("KeyError", path, tr)
    ELSE
      LET base == [i \in 1..Len(lp) |->
                      RoundBox(lp[i], params["half_extent"],
                               params["corner_radius"])]
          shifted == [i \in 1..Len(lp) |->
                        [c \in 1..3 |-> lp[i][c] + params["offset"][c]]]
      IN  Vals(sd_fbm(shifted, base, params["octaves"], params["frequency"],
                      params["gain"], params["blend"], params["warp_matrix"],
                      Lower(params["noise_variant"])).result, tr)

sdf_fbm_noise_sphere(lp, params, path, tr) ==
    IF ~({"offset", "octaves", "frequency", "gain", "blend", "warp_matrix",
          "noise_variant"} \subseteq DOMAIN params)
    THEN Raise("KeyError", path, tr)
    ELSE
      LET half_extent == IF "half_extent" \in DOMAIN params
                         THEN params["half_extent"] ELSE <<Unit, Unit, Unit>>
          corner_radius == IF "corner_radius" \in DOMAIN params
                           THEN params["corner_radius"] ELSE 100
          radius == IF "radius" \in DOMAIN params THEN params["radius"]
                    ELSE Max2(Max2(half_extent[1], half_extent[2]),
                              half_extent[3]) + corner_radius
          base == [i \in 1..Len(lp) |-> Norm(lp[i]) - radius]
          shifted == [i \in 1..Len(lp) |->
                        [c \in 1..3 |-> lp[i][c] + params["offset"][c]]]
      IN  Vals(sd_fbm(shifted, base, params["octaves"], params["frequency"],
                      params["gain"], params["blend"], params["warp_matrix"],
                      Lower(params["noise_variant"])).result, tr)

(***************************************************************************)
(* Menger sponge                                                           *)
(***************************************************************************)
\* the smallest half_size the kernel divides by (1.0e-8 in the program;
\* here the smallest positive number of the grid)
HalfSizeFloor == 1

\* the body of `for _ in range(iterations)` for one row, steps k+1 ..
RECURSIVE MengerLoop(_, _, _, _, _)
MengerLoop(pt, d, scale, k, iterations) ==
    IF k >= iterations THEN [d |-> d, folds |-> k]
    ELSE
      LET p == [c \in 1..3 |-> (FMul(pt[c], 3 * Unit) % (2 * Unit)) - Unit]
          scale3 == FMul(scale, 3 * Unit)
          r == [c \in 1..3 |-> Unit - FMul(3 * Unit, Abs(p[c]))]
          da == Max2(Abs(r[1]), Abs(r[2]))
          db == Max2(Abs(r[2]), Abs(r[3]))
          dc == Max2(Abs(r[3]), Abs(r[1]))
          c == FDiv(Min2(Min2(da, db), dc) - Unit, scale3)
      IN  MengerLoop(p, Max2(d, c), scale3, k + 1, iterations)

\* the distance to the cube |p| <= 1 the loop starts from, one row
MengerBox(p) ==
    LET q == [c \in 1..3 |-> Abs(p[c]) - Unit]
        outside == [c \in 1..3 |-> Max2(q[c], 0)]
        inside == Min2(Max2(Max2(q[1], q[2]), q[3]), 0)
    IN  Norm(outside) + inside

\* sdf_menger_sponge for one row: the distance and the folding steps made
MengerRow(pt, params) ==
    LET half_size == Max2(params["half_size"], HalfSizeFloor)
        iterations == Max2(params["iterations"], 1)
        p == [c \in 1..3 |-> FDiv(pt[c], half_size)]
        r == MengerLoop(p, MengerBox(p), Unit, 0, iterations)
    IN  [d |-> FMul(r.d, half_size), folds |-> r.folds]

sdf_menger_sponge(lp, params, path, tr) ==
    IF ~({"half_size", "iterations"} \subseteq DOMAIN params)
    THEN Raise("KeyError", path, tr)
    ELSE Vals([i \in 1..Len(lp) |-> MengerRow(lp[i], params).d], tr)

(***************************************************************************)
(* Mandelbulb and Julia.  A lane is one sample of the batch: its z, dr and *)
(* r, and the number of times a quotient or a logarithm was taken for it.  *)
(* Exponents are whole numbers (power \div Unit): r**power is a repeated   *)
(* product and the angles theta*power and phi*power are reached by turning *)
(* power times through theta and phi.                                      *)
(***************************************************************************)
\* eps = 1e-8 lies below the smallest positive value of the grid, so
\* r > eps holds exactly when r is positive
FractalEps == 0

\* floor(a * b / Unit) without forming a * b (dr grows by a factor of
\* power * r**(power - 1) in every round)
FMulWide(a, b) == a * (b \div Unit) + (a * (b % Unit)) \div Unit

\* r ** n
RECURSIVE RPow(_, _)
RPow(r, n) == IF n <= 0 THEN Unit ELSE FMul(r, RPow(r, n - 1))

\* <<cos, sin>> of an angle after n more turns through the angle a
RECURSIVE Turn(_, _, _)
Turn(cs, a, n) ==
    IF n <= 0 THEN cs
    ELSE Turn(<<FMul(cs[1], a[1]) - FMul(cs[2], a[2]),
                FMul(cs[2], a[1]) + FMul(cs[1], a[2])>>, a, n - 1)

\* theta = arccos(clip(z / r, -1, 1)) as <<cos theta, sin theta>>
ThetaOf(q) == <<Max2(-Unit, Min2(Unit, q)),
                ISqrt(Unit * Unit - Max2(-Unit, Min2(Unit, q))
                                    * Max2(-Unit, Min2(Unit, q)))>>

\* phi = arctan2(y, x) as <<cos phi, sin phi>>; arctan2(0, 0) = 0
PhiOf(x, y, rho) ==
    IF rho = 0 THEN <<Unit, 0>> ELSE <<FDiv(x, rho), FDiv(y, rho)>>

\* new_z = zr * (sin_theta cos_phi, sin_theta sin_phi, cos_theta) + c
FractalNewZ(zr, theta, phi, c) ==
    <<FMul(FMul(zr, theta[2]), phi[1]) + c[1],
      FMul(FMul(zr, theta[2]), phi[2]) + c[2],
      FMul(zr, theta[1]) + c[3]>>

\* z[active] = new_z; dr[active] = dr_active; r[active] = norm(new_z)
FractalStore(new_z, dr_active, evals) ==
    [z |-> new_z, dr |-> dr_active, r |-> Norm(new_z), evals |-> evals]

\* one round of the loop body for one active lane
FractalStep(lane, c, power) ==
    FractalStore(
        FractalNewZ(RPow(lane.r, power \div Unit),
                    Turn(<<Unit, 0>>, ThetaOf(FDiv(lane.z[3], lane.r)),
                         power \div Unit),
                    Turn(<<Unit, 0>>,
                         PhiOf(lane.z[1], lane.z[2],
                               ISqrt(lane.z[1] * lane.z[1]
                                     + lane.z[2] * lane.z[2])),
                         power \div Unit),
                    c),
        FMulWide(FMul(power, RPow(lane.r, power \div Unit - 1)), lane.dr)
            + Unit,
        lane.evals + 1)

\* active = (r > eps) & (r <= bailout)
Active(r, bailout) == r > FractalEps /\ r <= bailout

\* np.any(active)
AnyActive(lanes, bailout) ==
    \E i \in 1..Len(lanes) : Active(lanes[i].r, bailout)

\* variant: the round's derivative is stored for every lane
FractalRoundUnmasked(lanes, cs, bailout, power) ==
    [i \in 1..Len(lanes) |->
        IF Active(lanes[i].r, bailout)
        THEN FractalStep(lanes[i], cs[i], power)
        ELSE [lanes[i] EXCEPT !.dr = FMulWide(power, @) + Unit]]

\* one round: the active lanes are replaced, the others are left alone
FractalRound(lanes, cs, bailout, power) ==
    [i \in 1..Len(lanes) |->
        IF Active(lanes[i].r, bailout)
        THEN FractalStep(lanes[i], cs[i], power)
        ELSE lanes[i]]

\* z = points.copy(); dr = ones; r = norm(z)
FractalLanes(pts) ==
    [i \in 1..Len(pts) |->
        [z |-> pts[i], dr |-> Unit, r |-> Norm(pts[i]), evals |-> 0]]

\* for _ in range(max_iterations), left at the first round without an
\* active lane
RECURSIVE FractalLoop(_, _, _, _, _)
FractalLoop(lanes, cs, bailout, power, left) ==
    IF left <= 0 \/ ~AnyActive(lanes, bailout) THEN lanes
    ELSE FractalLoop(FractalRound(lanes, cs, bailout, power), cs, bailout,
                     power, left - 1)

\* np.log on 1 <= x < 2 by the series of atanh, halving or doubling into
\* that interval
RECURSIVE Ln(_)
Ln(x) ==
    IF x >= 2 * Unit THEN 693 + Ln(x \div 2)
    ELSE IF x < Unit THEN Ln(2 * x) - 693
    ELSE 2 * FDiv(x - Unit, x + Unit)
         + (2 * RPow(FDiv(x - Unit, x + Unit), 3)) \div 3
         + (2 * RPow(FDiv(x - Unit, x + Unit), 5)) \div 5

\* 0.5 * np.log(r) * r / dr; log(0) * 0 is nan
Estimate(r, dr) ==
    IF r <= 0 THEN [nan |-> TRUE, val |-> 0, est |-> TRUE]
    ELSE [nan |-> FALSE, val |-> FDiv(FMul(FMul(500, Ln(r)), r), dr),
          est |-> TRUE]

\* variant: the estimate is taken for every lane
NonZeroAlways(r) == TRUE

\* nonzero = r > eps
NonZero(r) == r > FractalEps

\* the distance of one lane after the loop: zero, the estimate where r is
\* not zero, the solid core where r is inside it
FractalDist(lane, solid_radius) ==
    IF solid_radius > 0 /\ lane.r < solid_radius
    THEN [nan |-> FALSE, val |-> -(solid_radius - lane.r),
          est |-> NonZero(lane.r)]
    ELSE IF NonZero(lane.r) THEN Estimate(lane.r, lane.dr)
    ELSE [nan |-> FALSE, val |-> 0, est |-> FALSE]

\* sdf_julia iterates with its own exponent
JuliaPower == 8 * Unit

\* the exponent, the added constant of each lane and the parameters the two
\* evaluators read
FractalPower(params) ==
    IF params["type"] = "sdf_julia" THEN JuliaPower ELSE params["power"]

FractalC(params, pts) ==
    IF params["type"] = "sdf_julia"
    THEN [i \in 1..Len(pts) |-> params["constant"]]
    ELSE pts

FractalKernel(lp, params, path, tr) ==
    Vals([i \in 1..Len(lp) |->
             FractalDist(FractalLoop(FractalLanes(lp), FractalC(params, lp),
                                     params["bailout"], FractalPower(params),
                                     params["max_iterations"])[i],
                         params["solid_radius"]).val],
         tr)

sdf_mandelbulb(lp, params, path, tr) ==
    IF ~({"power", "max_iterations", "bailout", "solid_radius"}
            \subseteq DOMAIN params)
    THEN Raise("KeyError", path, tr)
    ELSE FractalKernel(lp, params, path, tr)

sdf_julia(lp, params, path, tr) ==
    IF ~({"constant", "max_iterations", "bailout", "solid_radius"}
            \subseteq DOMAIN params)
    THEN Raise("KeyError", path, tr)
    ELSE FractalKernel(lp, params, path, tr)

RECURSIVE evaluate_shape_recursive(_, _, _)

\* [eval_child(child) for child in children], children i..Len evaluated in
\* order, stopping at the first one that raises
RECURSIVE EvalChildren(_, _, _, _, _, _)
EvalChildren(lp, children, path, i, acc, tr) ==
    IF i > Len(children) THEN Vals(acc, tr)
    ELSE LET r == evaluate_shape_recursive(lp, children[i], Append(path, i))
         IN  IF ~r.ok THEN Raise(r.err, r.at, tr \o r.trace)
             ELSE EvalChildren(lp, children, path, i + 1,
                               Append(acc, r.vals), tr \o r.trace)

RECURSIVE FoldMin(_, _, _)
FoldMin(child_values, p, i) ==
    IF i = Len(child_values) THEN child_values[i][p]
    ELSE Min2(child_values[i][p], FoldMin(child_values, p, i + 1))

RECURSIVE FoldMax(_, _, _)
FoldMax(child_values, p, i) ==
    IF i = Len(child_values) THEN child_values[i][p]
    ELSE Max2(child_values[i][p], FoldMax(child_values, p, i + 1))

sdf_union(lp, children, path, tr) ==
    IF Len(children) = 0 THEN Raise("ArityError", path, tr)
    ELSE LET cv == EvalChildren(lp, children, path, 1, << >>, tr)
         IN  IF ~cv.ok THEN cv
             ELSE Vals([p \in 1..Len(lp) |-> FoldMin(cv.vals, p, 1)], cv.trace)

sdf_intersection(lp, children, path, tr) ==
    IF Len(children) = 0 THEN Raise("ArityError", path, tr)
    ELSE LET cv == EvalChildren(lp, children, path, 1, << >>, tr)
         IN  IF ~cv.ok THEN cv
             ELSE Vals([p \in 1..Len(lp) |-> FoldMax(cv.vals, p, 1)], cv.trace)

\* variant: the operands are taken in the opposite order
sdf_differenceSwapped(lp, children, path, tr) ==
    IF Len(children) # 2 THEN Raise("ArityError", path, tr)
    ELSE LET left == evaluate_shape_recursive(lp, children[1], Append(path, 1))
         IN  IF ~left.ok THEN Raise(left.err, left.at, tr \o left.trace)
             ELSE
               LET right == evaluate_shape_recursive(lp, children[2],
                                                     Append(path, 2))
               IN  IF ~right.ok
                   THEN Raise(right.err, right.at,
                              tr \o left.trace \o right.trace)
                   ELSE Vals([p \in 1..Len(lp) |->
                                 Max2(right.vals[p], -left.vals[p])],
                             tr \o left.trace \o right.trace)

\* variant: more than two children are accepted, the extra ones ignored
sdf_differenceAtLeastTwo(lp, children, path, tr) ==
    IF Len(children) < 2 THEN Raise("ArityError", path, tr)
    ELSE LET left == evaluate_shape_recursive(lp, children[1], Append(path, 1))
         IN  IF ~left.ok THEN Raise(left.err, left.at, tr \o left.trace)
             ELSE
               LET right == evaluate_shape_recursive(lp, children[2],
                                                     Append(path, 2))
               IN  IF ~right.ok
                   THEN Raise(right.err, right.at,
                              tr \o left.trace \o right.trace)
                   ELSE Vals([p \in 1..Len(lp) |->
                                 Max2(left.vals[p], -right.vals[p])],
                             tr \o left.trace \o right.trace)

sdf_difference(lp, children, path, tr) ==
    IF Len(children) # 2 THEN Raise("ArityError", path, tr)
    ELSE LET left == evaluate_shape_recursive(lp, children[1], Append(path, 1))
         IN  IF ~left.ok THEN Raise(left.err, left.at, tr \o left.trace)
             ELSE
               LET right == evaluate_shape_recursive(lp, children[2],
                                                     Append(path, 2))
               IN  IF ~right.ok
                   THEN Raise(right.err, right.at,
                              tr \o left.trace \o right.trace)
                   ELSE Vals([p \in 1..Len(lp) |->
                                 Max2(left.vals[p], -right.vals[p])],
                             tr \o left.trace \o right.trace)

\* evaluator = SDF_EVALUATORS[shape_type]; evaluator(local_points, data, children, eval_child)
CallEvaluator(shape_type, lp, data, children, path, tr) ==
    CASE shape_type = "sdf_sphere" -> sdf_sphere(lp, data, path, tr)
      [] shape_type = "sdf_plane" -> sdf_plane(lp, data, path, tr)
      [] shape_type = "sdf_fbm_noise" -> sdf_fbm_noise(lp, data, path, tr)
      [] shape_type = "sdf_fbm_noise_sphere" ->
            sdf_fbm_noise_sphere(lp, data, path, tr)
      [] shape_type = "sdf_menger_sponge" ->
            sdf_menger_sponge(lp, data, path, tr)
      [] shape_type = "sdf_mandelbulb" -> sdf_mandelbulb(lp, data, path, tr)
      [] shape_type = "sdf_julia" -> sdf_julia(lp, data, path, tr)
      [] shape_type = "sdf_union" -> sdf_union(lp, children, path, tr)
      [] shape_type = "sdf_intersection" ->
            sdf_intersection(lp, children, path, tr)
      [] shape_type = "sdf_difference" ->
            sdf_difference(lp, children, path, tr)

\* return local_values * scale
Rescale(local_values, scale) ==
    IF ~local_values.ok THEN local_values
    ELSE Vals([i \in 1..Len(local_values.vals) |->
                  FMul(local_values.vals[i], scale)],
              local_values.trace)

\* variant: the evaluator's distances are returned without the rescale
evaluate_shape_recursiveNoRescale(pts, node, path) ==
    LET enter == << <<"eval", path>> >>
        missing == {"type", "translate", "scale"} \ DOMAIN node
    IN
    IF missing # {} THEN Raise("KeyError", path, enter)
    ELSE
      LET shape_type == node["type"]
          children == IF "children" \in DOMAIN node
                      THEN node["children"] ELSE << >>
          translate == node["translate"]
          scale == node["scale"]
          data == Restrict(node, DOMAIN node \
                             {"type", "children", "translate", "scale"})
      IN  IF scale <= 0 THEN Raise("InvalidScale", path, enter)
          ELSE
            LET local_points ==
                    [i \in 1..Len(pts) |-> VDivS(VSub(pts[i], translate), scale)]
            IN  CallEvaluator(shape_type, local_points, data, children,
                              path, Append(enter, <<"kernel", path>>))

evaluate_shape_recursive(pts, node, path) ==
    LET enter == << <<"eval", path>> >>
        missing == {"type", "translate", "scale"} \ DOMAIN node
    IN
    IF missing # {} THEN Raise("KeyError", path, enter)
    ELSE
      LET shape_type == node["type"]
          children == IF "children" \in DOMAIN node
                      THEN node["children"] ELSE << >>
          translate == node["translate"]
          scale == node["scale"]
          data == Restrict(node, DOMAIN node \
                             {"type", "children", "translate", "scale"})
      IN  IF scale <= 0 THEN Raise("InvalidScale", path, enter)
          ELSE
            LET local_points ==
                    [i \in 1..Len(pts) |-> VDivS(VSub(pts[i], translate), scale)]
            IN  Rescale(CallEvaluator(shape_type, local_points, data,
                                      children, path,
                                      Append(enter, <<"kernel", path>>)),
                        scale)

evaluate_shape(pts, s) ==
    LET r == merge_defaults(s)
    IN  IF ~r.ok THEN Raise(r.err, r.at, << >>)
        ELSE IF \E i \in 1..Len(pts) : Len(pts[i]) # 3
        THEN Raise("BadPoints", << >>, << >>)
        ELSE evaluate_shape_recursive(pts, r.val, << >>)

(***************************************************************************)
(* Inputs: partial shape specifications a caller can write                 *)
(***************************************************************************)
Node(t) == [k \in {"type"} |-> t]

With(d, k, v) == Overlay(d, [x \in {k} |-> v])

Moved(d) == With(With(d, "translate", <<1000, 0, 0>>), "scale", 2000)

UnitSphere == Node("sdf_sphere")

BigSphere == Moved(With(Node("sdf_sphere"), "radius", 2000))

\* leaves: defaults only, user overrides, bad scale, unregistered type
LeafAlphabet ==
    {UnitSphere, BigSphere, With(Node("sdf_sphere"), "scale", 0),
     Node("sdf_torus")}

\* a leaf without a type
Untyped == [k \in {"radius"} |-> 1000]

InnerHeads ==
    {Node(t) : t \in {"sdf_union", "sdf_intersection", "sdf_difference",
                      "sdf_sphere"}}
    \cup {Moved(Node(t)) : t \in {"sdf_union", "sdf_difference"}}
    \cup {With(Node("sdf_union"), "scale", 0),
          With(Node("sdf_difference"), "scale", -1000)}

SeqsUpTo(S, n) == UNION {[1..m -> S] : m \in 0..n}

\* one level of nesting, every children list of up to MaxChildren leaves
Wide ==
    {With(h, "children", cs) :
        h \in InnerHeads, cs \in SeqsUpTo(LeafAlphabet, MaxChildren)}

ChainHeads ==
    {Node("sdf_union"), Moved(Node("sdf_union")), Node("sdf_difference")}

\* deeper nesting along one branch
RECURSIVE Chain(_)
Chain(d) ==
    IF d <= 1
    THEN LeafAlphabet \cup
            {Untyped, Moved(UnitSphere), Node("sdf_union"),
             With(Node("sdf_intersection"), "children", << >>)}
    ELSE {With(h, "children", cs) :
            h \in ChainHeads,
            cs \in UNION {{<<c>>, <<BigSphere, c>>} : c \in Chain(d - 1)}}

Trees == Wide \cup UNION {Chain(d) : d \in 1..MaxDepth}

PointBatches ==
    {<< <<3000, 0, 0>> >>,
     << <<0, 0, 0>>, <<1000, 2000, 2000>> >>}

NotRun == [ok |-> FALSE, err |-> "NotRun", at |-> << >>]

(***************************************************************************)
(* Resolver and evaluator called on a caller's specification               *)
(***************************************************************************)
NoError == [err |-> "none", at |-> << >>]

\* no workers are running
WorkersIdle ==
    /\ workers = << >>
    /\ scratch = << >>
    /\ inodes = << >>
    /\ foreign = {}

\* the batch program is not running
JobsIdle ==
    /\ WorkersIdle
    /\ args = [resolution |-> 1, chunk |-> 1]
    /\ jobs = << >>
    /\ ji = 1
    /\ jpc = "exit"
    /\ cur = << >>
    /\ shape_spec = NotRun
    /\ files = {}
    /\ outputs = {}
    /\ field = << >>
    /\ z0 = 0
    /\ jerr = NoError
    /\ jlog = << >>

Init ==
    /\ spec \in Trees
    /\ points \in PointBatches
    /\ pc = {}
    /\ resolved = NotRun
    /\ again = NotRun
    /\ result = NotRun
    /\ JobsIdle

\* resolved = merge_defaults(spec)
MergeDefaults ==
    /\ "merged" \notin pc
    /\ resolved' = merge_defaults(spec)
    /\ pc' = pc \cup {"merged"}
    /\ UNCHANGED <<spec, points, again, result>>
    /\ UNCHANGED <<jvars, pvars>>

\* merge_defaults applied to a tree merge_defaults returned
MergeAgain ==
    /\ "merged" \in pc
    /\ "again" \notin pc
    /\ resolved.ok
    /\ again' = merge_defaults(resolved.val)
    /\ pc' = pc \cup {"again"}
    /\ UNCHANGED <<spec, points, resolved, result>>
    /\ UNCHANGED <<jvars, pvars>>

\* result = evaluate_shape(points, spec)
EvaluateShape ==
    /\ "evaluated" \notin pc
    /\ result' = evaluate_shape(points, spec)
    /\ pc' = pc \cup {"evaluated"}
    /\ UNCHANGED <<spec, points, resolved, again>>
    /\ UNCHANGED <<jvars, pvars>>

Next == MergeDefaults \/ EvaluateShape

Spec == Init /\ [][Next]_vars

(***************************************************************************)
(* The resolver alone, on every registered type with every choice of       *)
(* overridden keys                                                         *)
(***************************************************************************)
VectorKeys ==
    {"translate", "normal", "half_extent", "displacement_freq",
     "displacement_axis_amp", "constant"}

UserValue(t, k) ==
    CASE k \in VectorKeys -> <<7000, 7000, 7000>>
      [] k = "offset" /\ t # "sdf_plane" -> <<7000, 7000, 7000>>
      [] k = "warp_matrix" ->
            << <<1000, 0, 0>>, <<0, 1000, 0>>, <<0, 0, 1000>> >>
      [] k = "noise_variant" -> "simplex"
      [] k = "material" -> "gold"
      [] OTHER -> 7000

FlatKeys(t) ==
    DOMAIN BASE_DEFAULTS \cup DOMAIN TypeDefaults(t) \cup {"material"}

\* single nodes of type t, one for every set of keys the caller overrides
Flat(t) ==
    {Overlay(Node(t), [k \in K |-> UserValue(t, k)]) :
        K \in SUBSET FlatKeys(t)}

InitResolve ==
    /\ \/ spec \in Trees
       \/ \E t \in SDF_EVALUATORS : spec \in Flat(t)
    /\ points = << >>
    /\ pc = {}
    /\ resolved = NotRun
    /\ again = NotRun
    /\ result = NotRun
    /\ JobsIdle

NextResolve == MergeDefaults \/ MergeAgain

SpecResolve == InitResolve /\ [][NextResolve]_vars

(***************************************************************************)
(* Direct calls of the Menger and fBm kernels                              *)
(***************************************************************************)
MaxIterations == 2
MaxOctaves == 2

MengerCoords == {0, 400, 1500}
MengerParams ==
    [type : {"sdf_menger_sponge"}, half_size : {500, 1000, 2000},
     iterations : 0..MaxIterations]

InitMenger ==
    /\ spec \in MengerParams
    /\ \E x \in MengerCoords, y \in MengerCoords, z \in MengerCoords :
           points = << <<x, y, z>> >>
    /\ pc = {}
    /\ resolved = NotRun
    /\ again = NotRun
    /\ result = NotRun
    /\ JobsIdle

\* result = sdf_menger_sponge(points, spec), with the folding steps counted
MengerCall ==
    /\ "called" \notin pc
    /\ result' = [ok |-> TRUE,
                  vals |-> sdf_menger_sponge(points, spec, << >>, << >>).vals,
                  folds |-> [i \in 1..Len(points) |->
                                MengerRow(points[i], spec).folds]]
    /\ pc' = pc \cup {"called"}
    /\ UNCHANGED <<spec, points, resolved, again>>
    /\ UNCHANGED <<jvars, pvars>>

NextMenger == MengerCall

SpecMenger == InitMenger /\ [][NextMenger]_vars

FbmBatches ==
    { << <<0, 0, 0>>, <<1000, 2000, 2000>> >>,
      << <<300, -700, 1200>>, <<-1500, 250, 0>> >> }
Identity3 == <<<<Unit, 0, 0>>, <<0, Unit, 0>>, <<0, 0, Unit>>>>
FbmArgs(pts) ==
    [base_distance : {[i \in 1..Len(pts) |-> Norm(pts[i]) - Unit],
                      [i \in 1..Len(pts) |-> -200]},
     octaves : 0..MaxOctaves,
     frequency : {2000},
     gain : {550, Unit},
     blend : {150, 0},
     warp_matrix : {WarpDefault, Identity3},
     variant : {"lattice", "simplex", "Simplex"}]

InitFbm ==
    /\ points \in FbmBatches
    /\ spec \in FbmArgs(points)
    /\ pc = {}
    /\ resolved = NotRun
    /\ again = NotRun
    /\ result = NotRun
    /\ JobsIdle

\* result = sd_fbm(points, base_distance, octaves, ...)
FbmCall ==
    /\ "called" \notin pc
    /\ result' = sd_fbm(points, spec.base_distance, spec.octaves,
                        spec.frequency, spec.gain, spec.blend,
                        spec.warp_matrix, spec.variant)
    /\ pc' = pc \cup {"called"}
    /\ UNCHANGED <<spec, points, resolved, again>>
    /\ UNCHANGED <<jvars, pvars>>

NextFbm == FbmCall

SpecFbm == InitFbm /\ [][NextFbm]_vars

(***************************************************************************)
(* The batch program: main, run_job, evaluate_field_chunked                *)
(***************************************************************************)
MaxRes == 2
MaxJobs == 2

DEFAULT_BOUNDS == <<<<-1500, 1500>>, <<-1500, 1500>>, <<-1500, 1500>>>>

\* x.astype(np.float32): 24 significant bits
RECURSIVE Quantum(_, _)
Quantum(a, q) == IF a \div q < 16777216 THEN q ELSE Quantum(a, 2 * q)

AsFloat32(x) ==
    LET q == Quantum(Abs(x), 1)
        m == ((Abs(x) + q \div 2) \div q) * q
    IN  IF x < 0 THEN -m ELSE m

\* np.linspace(lo, hi, n, dtype=np.float32)
Linspace(lo, hi, n) ==
    [i \in 1..n |->
        IF n = 1 THEN AsFloat32(lo)
        ELSE IF i = n THEN AsFloat32(hi)
        ELSE AsFloat32(lo + FMul((i - 1) * Unit,
                                  FDiv(hi - lo, (n - 1) * Unit)))]

\* linspace_axes
linspace_axes(resolution, bounds) ==
    [c \in 1..3 |-> Linspace(bounds[c][1], bounds[c][2], resolution)]

\* the rows of meshgrid(xs, ys, z_slice, indexing="ij") reshaped to (-1, 3):
\* x slowest, z fastest; z_slice = zs[z: z + len]
Grid(axes, resolution, z, len) ==
    [p \in 1..(resolution * resolution * len) |->
        <<axes[1][((p - 1) \div (len * resolution)) + 1],
          axes[2][(((p - 1) \div len) % resolution) + 1],
          axes[3][z + ((p - 1) % len) + 1]>>]

\* variant: the slab is read back with z slowest and x fastest
RowOfTransposed(resolution, len, i, j, k) ==
    ((k - 1) * resolution + (j - 1)) * len + i

\* the row of the grid that holds cell (i, j, z + k)
RowOf(resolution, len, i, j, k) == ((i - 1) * resolution + (j - 1)) * len + k

Cells(resolution) == (1..resolution) \X (1..resolution) \X (1..resolution)

\* np.memmap(..., mode="w+"): a new file of zeros
Memmap(resolution) ==
    [cell \in Cells(resolution) |-> [val |-> 0, writes |-> 0]]

\* scratch_dir / f"sdf_field_{shape_spec['type']}_{resolution}.dat"
FieldPath(s, resolution) == <<"sdf_field", s["type"], resolution>>

Combinators == {"sdf_union", "sdf_intersection", "sdf_difference"}

\* the evaluator calls of one evaluate_shape, as events of job j
RECURSIVE KernelEvents(_, _)
KernelEvents(tr, j) ==
    IF tr = << >> THEN << >>
    ELSE IF Head(tr)[1] = "kernel"
    THEN << <<"kernel", j, Head(tr)[2]>> >> \o KernelEvents(Tail(tr), j)
    ELSE KernelEvents(Tail(tr), j)

JobShapes ==
    { UnitSphere,
      With(Node("sdf_union"), "children", <<UnitSphere, Moved(BigSphere)>>),
      Node("sdf_torus"),
      Node("sdf_union"),
      With(Node("sdf_union"), "children", <<UnitSphere, Node("sdf_union")>>) }

JobAlphabet ==
    {[shape |-> s] : s \in JobShapes}
        \cup {[shape |-> With(Node("sdf_union"), "children",
                               <<BigSphere, Moved(UnitSphere)>>),
                resolution |-> 3, chunk |-> 2, name |-> "big"]}

JobLists == UNION {[1..n -> JobAlphabet] : n \in 1..MaxJobs}

Chunks == {-1, 0, 1, 2}

InitJob ==
    /\ spec = << >>
    /\ points = << >>
    /\ pc = {}
    /\ resolved = NotRun
    /\ again = NotRun
    /\ result = NotRun
    /\ args \in [resolution : 1..MaxRes, chunk : Chunks]
    /\ WorkersIdle
    /\ jobs \in JobLists
    /\ ji = 1
    /\ jpc = "next"
    /\ cur = << >>
    /\ shape_spec = NotRun
    /\ files = {}
    /\ outputs = {}
    /\ field = << >>
    /\ z0 = 0
    /\ jerr = NoError
    /\ jlog = << >>

\* an exception leaves run_job and main: the program ends with a traceback
Crash(e, path) ==
    /\ jerr' = [err |-> e, at |-> path]
    /\ jpc' = "crashed"

\* main: `for job in jobs: run_job(job, args)`; run_job up to the output
\* directory: resolution, chunk, bounds, merge_defaults(job["shape"]), name
ResolveJob ==
    /\ jpc = "next"
    /\ ji <= Len(jobs)
    /\ LET job == jobs[ji]
           resolution == IF "resolution" \in DOMAIN job
                         THEN job["resolution"] ELSE args.resolution
           chunk == IF "chunk" \in DOMAIN job THEN job["chunk"]
                    ELSE args.chunk
           bounds == IF "bounds" \in DOMAIN job THEN job["bounds"]
                     ELSE DEFAULT_BOUNDS
           r == IF "shape" \in DOMAIN job THEN merge_defaults(job["shape"])
                ELSE Err("KeyError", << >>)
       IN  IF ~r.ok
           THEN /\ Crash(r.err, r.at)
                /\ jlog' = Append(jlog, <<"fail", ji, r.err>>)
                /\ UNCHANGED <<cur, shape_spec>>
           ELSE /\ shape_spec' = r.val
                /\ cur' = [resolution |-> resolution, chunk |-> chunk,
                           bounds |-> bounds,
                           output |-> <<IF "name" \in DOMAIN job
                                        THEN <<job["name"]>>
                                        ELSE <<r.val["type"], resolution>>,
                                        resolution>>]
                /\ jlog' = Append(jlog, <<"start", ji>>)
                /\ jpc' = "resolved"
                /\ UNCHANGED jerr
    /\ UNCHANGED <<args, jobs, ji, files, outputs, field, z0>>
    /\ UNCHANGED <<evars, pvars>>

\* evaluate_field_chunked up to the loop: the axes, the scratch directory,
\* the backing file; then range(0, resolution, chunk) is built
CreateStore ==
    /\ jpc = "resolved"
    /\ files' = files \cup {FieldPath(shape_spec, cur.resolution)}
    /\ field' = Memmap(cur.resolution)
    /\ z0' = 0
    /\ IF cur.chunk = 0
       THEN /\ Crash("ZeroStep", << >>)
            /\ jlog' = jlog \o
                   << <<"create", ji, FieldPath(shape_spec, cur.resolution)>>,
                      <<"fail", ji, "ZeroStep">> >>
       ELSE /\ jpc' = "slabs"
            /\ jlog' = Append(jlog,
                   <<"create", ji, FieldPath(shape_spec, cur.resolution)>>)
            /\ UNCHANGED jerr
    /\ UNCHANGED <<args, jobs, ji, cur, shape_spec, outputs>>
    /\ UNCHANGED <<evars, pvars>>

\* range(0, resolution, chunk) has a next element
MoreSlabs == cur.chunk > 0 /\ z0 < cur.resolution

\* field[:, :, z: z + len] = distances.reshape(resolution, resolution, len)
WriteSlab(fld, distances, resolution, z, len) ==
    [cell \in Cells(resolution) |->
        IF cell[3] > z /\ cell[3] <= z + len
        THEN [val |-> AsFloat32(distances[RowOf(resolution, len, cell[1],
                                                cell[2], cell[3] - z)]),
              writes |-> fld[cell].writes + 1]
        ELSE fld[cell]]

\* one round of the loop: the slab's grid, evaluate_shape on it, the write
Slab ==
    /\ jpc = "slabs"
    /\ MoreSlabs
    /\ \E r \in {evaluate_shape(
                     Grid(linspace_axes(cur.resolution, cur.bounds),
                          cur.resolution, z0,
                          Min2(cur.chunk, cur.resolution - z0)),
                     shape_spec)} :
          IF ~r.ok
          THEN /\ Crash(r.err, r.at)
               /\ jlog' = jlog \o KernelEvents(r.trace, ji)
                               \o << <<"fail", ji, r.err>> >>
               /\ UNCHANGED <<field, z0>>
          ELSE /\ field' = WriteSlab(field, r.vals, cur.resolution, z0,
                                     Min2(cur.chunk, cur.resolution - z0))
               /\ z0' = z0 + cur.chunk
               /\ jlog' = jlog \o KernelEvents(r.trace, ji)
                               \o << <<"write", ji, z0,
                                       Min2(cur.chunk, cur.resolution - z0)>> >>
               /\ UNCHANGED <<jpc, jerr>>
    /\ UNCHANGED <<args, jobs, ji, cur, shape_spec, files, outputs>>
    /\ UNCHANGED <<evars, pvars>>

\* the loop is over: field.flush() and return
Flush ==
    /\ jpc = "slabs"
    /\ ~MoreSlabs
    /\ jpc' = "flushed"
    /\ jlog' = Append(jlog, <<"flush", ji>>)
    /\ UNCHANGED <<args, jobs, ji, cur, shape_spec, files, outputs, field,
                   z0, jerr>>
    /\ UNCHANGED <<evars, pvars>>

\* marching_cubes_from_field returns a mesh of the field as it is now
Extract ==
    /\ jpc = "flushed"
    /\ jpc' = "extracted"
    /\ jlog' = Append(jlog, <<"extract", ji, field>>)
    /\ UNCHANGED <<args, jobs, ji, cur, shape_spec, files, outputs, field,
                   z0, jerr>>
    /\ UNCHANGED <<evars, pvars>>

\* measure.marching_cubes raises (no surface at level 0, volume too small)
ExtractRaises ==
    /\ jpc = "flushed"
    /\ Crash("ExtractionError", << >>)
    /\ jlog' = jlog \o << <<"extract", ji, field>>,
                          <<"fail", ji, "ExtractionError">> >>
    /\ UNCHANGED <<args, jobs, ji, cur, shape_spec, files, outputs, field, z0>>
    /\ UNCHANGED <<evars, pvars>>

\* variant: the backing file is removed before the mesh is exported
ExportAfterUnlink ==
    /\ jpc = "extracted"
    /\ outputs' = outputs \cup {cur.output}
    /\ files' = files \ {FieldPath(shape_spec, cur.resolution)}
    /\ jpc' = "exported"
    /\ jlog' = jlog \o << <<"unlink", ji,
                             FieldPath(shape_spec, cur.resolution)>>,
                           <<"export", ji, cur.output>> >>
    /\ UNCHANGED <<args, jobs, ji, cur, shape_spec, field, z0, jerr>>
    /\ UNCHANGED <<evars, pvars>>

\* trimesh.Trimesh(...); mesh.export(output)
Export ==
    /\ jpc = "extracted"
    /\ outputs' = outputs \cup {cur.output}
    /\ jpc' = "exported"
    /\ jlog' = Append(jlog, <<"export", ji, cur.output>>)
    /\ UNCHANGED <<args, jobs, ji, cur, shape_spec, files, field, z0, jerr>>
    /\ UNCHANGED <<evars, pvars>>

\* mesh.export raises (the file cannot be written)
ExportRaises ==
    /\ jpc = "extracted"
    /\ Crash("ExportError", << >>)
    /\ jlog' = Append(jlog, <<"fail", ji, "ExportError">>)
    /\ UNCHANGED <<args, jobs, ji, cur, shape_spec, files, outputs, field, z0>>
    /\ UNCHANGED <<evars, pvars>>

\* del field; field_path.unlink() when the file exists, an OSError of the
\* unlink is swallowed; run_job returns and main takes the next job
Cleanup ==
    /\ jpc = "exported"
    /\ LET field_path == FieldPath(shape_spec, cur.resolution)
       IN  \E unlinked \in BOOLEAN :
              /\ unlinked => field_path \in files
              /\ files' = IF unlinked THEN files \ {field_path} ELSE files
              /\ jlog' = IF unlinked
                         THEN jlog \o << <<"unlink", ji, field_path>>,
                                         <<"done", ji>> >>
                         ELSE Append(jlog, <<"done", ji>>)
    /\ field' = << >>
    /\ ji' = ji + 1
    /\ jpc' = "next"
    /\ UNCHANGED <<args, jobs, cur, shape_spec, outputs, z0, jerr>>
    /\ UNCHANGED <<evars, pvars>>

NextJob ==
    \/ ResolveJob
    \/ CreateStore
    \/ Slab
    \/ Flush
    \/ Extract
    \/ ExtractRaises
    \/ Export
    \/ ExportRaises
    \/ Cleanup

SpecJob == InitJob /\ [][NextJob]_vars

(***************************************************************************)
(* Two run_job calls at once (two processes, one scratch directory)        *)
(***************************************************************************)
Workers == {1, 2}

\* jobs a batch may hold: distinct shape parameters and/or resolutions
ParJobs ==
    { [shape |-> UnitSphere, resolution |-> 2, chunk |-> 1],
      [shape |-> BigSphere, resolution |-> 2, chunk |-> 1],
      [shape |-> BigSphere, resolution |-> 1, chunk |-> 1],
      [shape |-> With(Node("sdf_union"), "children",
                      <<BigSphere, Moved(UnitSphere)>>),
       resolution |-> 2, chunk |-> 2] }

Worker(job) ==
    [job |-> job, pc |-> "start", shape_spec |-> NotRun, z0 |-> 0, ino |-> 0,
     read |-> << >>]

InitPar ==
    /\ spec = << >>
    /\ points = << >>
    /\ pc = {}
    /\ resolved = NotRun
    /\ again = NotRun
    /\ result = NotRun
    /\ args = [resolution |-> 1, chunk |-> 1]
    /\ jobs = << >>
    /\ ji = 1
    /\ jpc = "exit"
    /\ cur = << >>
    /\ shape_spec = NotRun
    /\ files = {}
    /\ outputs = {}
    /\ field = << >>
    /\ z0 = 0
    /\ jerr = NoError
    /\ jlog = << >>
    /\ \E a \in ParJobs, b \in ParJobs :
          /\ a # b
          /\ workers = [w \in Workers |-> Worker(IF w = 1 THEN a ELSE b)]
    /\ scratch = << >>
    /\ inodes = << >>
    /\ foreign = {}

\* the worker's record with some fields rebound
Rebind(w, fields) ==
    [workers EXCEPT ![w] = Overlay(workers[w], fields)]

\* run_job up to the call of evaluate_field_chunked
WStart(w) ==
    /\ workers[w].pc = "start"
    /\ \E r \in {merge_defaults(workers[w].job["shape"])} :
          workers' = IF r.ok
                     THEN Rebind(w, [pc |-> "resolved", shape_spec |-> r.val])
                     ELSE Rebind(w, [pc |-> "crashed"])
    /\ UNCHANGED <<scratch, inodes, foreign>>
    /\ UNCHANGED <<evars, jvars>>

\* np.memmap(field_path, mode="w+"): the file at the path is created, or,
\* when the path exists, that file is truncated and zero-filled; then mapped
WCreate(w) ==
    /\ workers[w].pc = "resolved"
    /\ \E path \in {FieldPath(workers[w].shape_spec,
                              workers[w].job["resolution"])} :
          \E ino \in {IF path \in DOMAIN scratch THEN scratch[path] ELSE w} :
             /\ scratch' = Overlay(scratch, [q \in {path} |-> ino])
             /\ inodes' = Overlay(inodes,
                    [i \in {ino} |->
                        [owner |-> IF ino \in DOMAIN inodes
                                   THEN inodes[ino].owner ELSE w,
                         cells |-> Memmap(workers[w].job["resolution"])]])
             /\ foreign' = IF path \in DOMAIN scratch /\ inodes[ino].owner # w
                           THEN foreign \cup {<<"truncate", w, inodes[ino].owner>>}
                           ELSE foreign
             /\ workers' = Rebind(w, [pc |-> "slabs", ino |-> ino, z0 |-> 0])
    /\ UNCHANGED <<evars, jvars>>

WMoreSlabs(w) ==
    /\ workers[w].job["chunk"] > 0
    /\ workers[w].z0 < workers[w].job["resolution"]

\* one round of the loop of evaluate_field_chunked, writing through the map
WSlab(w) ==
    /\ workers[w].pc = "slabs"
    /\ WMoreSlabs(w)
    /\ \E me \in {workers[w]} :
        \E len \in {Min2(me.job["chunk"], me.job["resolution"] - me.z0)} :
          \E r \in {evaluate_shape(
                       Grid(linspace_axes(me.job["resolution"], DEFAULT_BOUNDS),
                            me.job["resolution"], me.z0, len),
                       me.shape_spec)} :
             IF ~r.ok
             THEN /\ workers' = Rebind(w, [pc |-> "crashed"])
                  /\ UNCHANGED <<inodes, foreign>>
             ELSE /\ inodes' = [inodes EXCEPT ![me.ino].cells =
                                   WriteSlab(@, r.vals, me.job["resolution"],
                                             me.z0, len)]
                  /\ foreign' = IF inodes[me.ino].owner # w
                                THEN foreign \cup
                                        {<<"write", w, inodes[me.ino].owner>>}
                                ELSE foreign
                  /\ workers' = Rebind(w, [z0 |-> me.z0 + me.job["chunk"]])
    /\ UNCHANGED scratch
    /\ UNCHANGED <<evars, jvars>>

\* field.flush() and return
WFlush(w) ==
    /\ workers[w].pc = "slabs"
    /\ ~WMoreSlabs(w)
    /\ workers' = Rebind(w, [pc |-> "flushed"])
    /\ UNCHANGED <<scratch, inodes, foreign>>
    /\ UNCHANGED <<evars, jvars>>

\* marching_cubes_from_field reads the mapped file
WExtract(w) ==
    /\ workers[w].pc = "flushed"
    /\ workers' = Rebind(w, [pc |-> "extracted",
                             read |-> [cell \in DOMAIN inodes[workers[w].ino].cells
                                          |-> inodes[workers[w].ino].cells[cell].val]])
    /\ UNCHANGED <<scratch, inodes, foreign>>
    /\ UNCHANGED <<evars, jvars>>

\* mesh.export(output)
WExport(w) ==
    /\ workers[w].pc = "extracted"
    /\ workers' = Rebind(w, [pc |-> "exported"])
    /\ UNCHANGED <<scratch, inodes, foreign>>
    /\ UNCHANGED <<evars, jvars>>

\* marching_cubes or mesh.export raises: the worker ends, its file stays
WRaises(w) ==
    /\ workers[w].pc \in {"flushed", "extracted"}
    /\ workers' = Rebind(w, [pc |-> "crashed"])
    /\ UNCHANGED <<scratch, inodes, foreign>>
    /\ UNCHANGED <<evars, jvars>>

\* del field; if field_path.exists(): field_path.unlink(), OSError swallowed
WCleanup(w) ==
    /\ workers[w].pc = "exported"
    /\ \E path \in {FieldPath(workers[w].shape_spec,
                              workers[w].job["resolution"])} :
          \E unlinked \in BOOLEAN :
             /\ unlinked => path \in DOMAIN scratch
             /\ scratch' = IF unlinked
                           THEN Restrict(scratch, DOMAIN scratch \ {path})
                           ELSE scratch
             /\ foreign' = IF unlinked /\ inodes[scratch[path]].owner # w
                           THEN foreign \cup
                                   {<<"unlink", w, inodes[scratch[path]].owner>>}
                           ELSE foreign
    /\ workers' = Rebind(w, [pc |-> "done"])
    /\ UNCHANGED inodes
    /\ UNCHANGED <<evars, jvars>>

NextPar ==
    \E w \in Workers :
        \/ WStart(w)
        \/ WCreate(w)
        \/ WSlab(w)
        \/ WFlush(w)
        \/ WExtract(w)
        \/ WExport(w)
        \/ WRaises(w)
        \/ WCleanup(w)

SpecPar == InitPar /\ [][NextPar]_vars

(***************************************************************************)
(* One call of a Mandelbulb or Julia node, round by round.  The caller     *)
(* always sets bailout and max_iterations, so that r**power and dr stay    *)
(* within the integers of the grid.                                        *)
(***************************************************************************)
\* a key the caller sets, or leaves out when v is negative
Opt(d, k, v) == IF v < 0 THEN d ELSE With(d, k, v)

FractalSpecs ==
    LET plain == { Opt(Opt(With(With(Node(t), "bailout", b),
                                "max_iterations", n), "power", p),
                       "solid_radius", s) :
                     t \in {"sdf_mandelbulb", "sdf_julia"},
                     b \in {1000, 1300}, n \in 0..MaxIterations,
                     p \in {-1, 2000, 3000}, s \in {-1, 500} }
    IN  plain \cup { With(d, "constant", <<0, 0, -1000>>) :
                       d \in {x \in plain : x["type"] = "sdf_julia"} }

FractalBatches ==
    {<< <<0, 0, 0>>, <<0, 0, -1000>>, <<2000, 0, 0>> >>,
     << <<500, 300, -400>>, <<0, 0, 1000>> >>}

InitFractal ==
    /\ spec \in FractalSpecs
    /\ points \in FractalBatches
    /\ pc = {}
    /\ resolved = NotRun
    /\ again = NotRun
    /\ result = NotRun
    /\ JobsIdle

\* shape_spec = merge_defaults(spec)
FractalResolve ==
    /\ pc = {}
    /\ resolved' = merge_defaults(spec)
    /\ pc' = {"resolved"}
    /\ UNCHANGED <<spec, points, again, result>>
    /\ UNCHANGED <<jvars, pvars>>

\* the evaluator is entered: every lane starts at its sample
FractalEnter ==
    /\ pc = {"resolved"}
    /\ resolved.ok
    /\ result' = [ok |-> TRUE, lanes |-> FractalLanes(points), rounds |-> 0,
                  used |-> << >>, dist |-> << >>]
    /\ pc' = pc \cup {"entered"}
    /\ UNCHANGED <<spec, points, resolved, again>>
    /\ UNCHANGED <<jvars, pvars>>

\* one round of the loop
FractalIterate ==
    /\ "entered" \in pc
    /\ "returned" \notin pc
    /\ result.rounds < resolved.val["max_iterations"]
    /\ AnyActive(result.lanes, resolved.val["bailout"])
    /\ result' = [result EXCEPT
                    !.lanes = FractalRound(@, FractalC(resolved.val, points),
                                           resolved.val["bailout"],
                                           FractalPower(resolved.val)),
                    !.rounds = @ + 1,
                    !.used = Append(@, FractalPower(resolved.val))]
    /\ UNCHANGED <<spec, points, pc, resolved, again>>
    /\ UNCHANGED <<jvars, pvars>>

\* the loop is left and the distances are returned
FractalReturn ==
    /\ "entered" \in pc
    /\ "returned" \notin pc
    /\ ~(/\ result.rounds < resolved.val["max_iterations"]
         /\ AnyActive(result.lanes, resolved.val["bailout"]))
    /\ result' = [result EXCEPT
                    !.dist = [i \in 1..Len(result.lanes) |->
                                 FractalDist(result.lanes[i],
                                             resolved.val["solid_radius"])]]
    /\ pc' = pc \cup {"returned"}
    /\ UNCHANGED <<spec, points, resolved, again>>
    /\ UNCHANGED <<jvars, pvars>>

NextFractal ==
    \/ FractalResolve
    \/ FractalEnter
    \/ FractalIterate
    \/ FractalReturn

SpecFractal == InitFractal /\ [][NextFractal]_vars

(***************************************************************************)
(* The extraction program (sdf_extraction.py run as a script).  files is   *)
(* the set of optional packages that can be imported, args the parsed      *)
(* command line, cur the locals of main, jlog what was done so far.  The   *)
(* sampling grid is an input here.                                         *)
(***************************************************************************)
\* --shape-config not given, or the JSON object it holds
ShapeConfigs ==
    {[given |-> FALSE], [given |-> TRUE, data |-> << >>],
     [given |-> TRUE, data |-> Moved(UnitSphere)],
     [given |-> TRUE, data |-> Node("sdf_union")]}

load_shape_spec(shape_name, config_arg) ==
    IF ~config_arg.given THEN Node(shape_name)
    ELSE Overlay(Node(shape_name), config_arg.data)

\* np.random.normal(scale=1e-4, size=points.shape), one draw per batch
Noises == {<<0, 0, 0>>, <<1, -1, 0>>, <<-1, 0, 1>>}

InitExtract ==
    /\ spec = << >>
    /\ points = << >>
    /\ pc = {}
    /\ resolved = NotRun
    /\ again = NotRun
    /\ result = NotRun
    /\ WorkersIdle
    /\ args \in [method : {"mc", "mt"}, output : {"", "mesh.obj"},
                 viz : BOOLEAN, shape : {"sdf_sphere", "sdf_menger_sponge"},
                 shape_config : ShapeConfigs]
    /\ files \in SUBSET {"torch", "kaolin"}
    /\ jobs = << >>
    /\ ji = 1
    /\ jpc = "import"
    /\ cur \in {[points |-> b] : b \in PointBatches}
    /\ shape_spec = NotRun
    /\ outputs = {}
    /\ field = << >>
    /\ z0 = 0
    /\ jerr = NoError
    /\ jlog = << >>

\* the module's own imports: `import torch` at the top of the file
LoadModule ==
    /\ jpc = "import"
    /\ IF "torch" \in files
       THEN jpc' = "main" /\ UNCHANGED jerr
       ELSE Crash("ImportError", << >>)
    /\ UNCHANGED <<args, jobs, ji, cur, shape_spec, files, outputs, field,
                   z0, jlog>>
    /\ UNCHANGED <<evars, pvars>>

\* main up to the choice of the method
EnterMain ==
    /\ jpc = "main"
    /\ shape_spec' = load_shape_spec(args.shape, args.shape_config)
    /\ jpc' = args.method
    /\ jlog' = Append(jlog, <<"request", args.method>>)
    /\ UNCHANGED <<args, jobs, ji, cur, files, outputs, field, z0, jerr>>
    /\ UNCHANGED <<evars, pvars>>

\* marching cubes: evaluate_shape, reshape_grid_values, grid_to_mesh
McPath ==
    /\ jpc = "mc"
    /\ \E r \in {evaluate_shape(cur.points, shape_spec)} :
          IF r.ok
          THEN /\ field' = r.vals
               /\ jlog' = jlog \o << <<"evaluate">>, <<"mesh", "mc">> >>
               /\ jpc' = "deliver"
               /\ UNCHANGED jerr
          ELSE /\ Crash(r.err, r.at)
               /\ jlog' = Append(jlog, <<"evaluate">>)
               /\ UNCHANGED field
    /\ UNCHANGED <<args, jobs, ji, cur, shape_spec, files, outputs, z0>>
    /\ UNCHANGED <<evars, pvars>>

\* variant: the optional packages are imported after the samples are drawn
MtImportLate ==
    /\ jpc = "mt"
    /\ IF {"torch", "kaolin"} \subseteq files
       THEN jpc' = "mt_sample" /\ UNCHANGED <<jerr, jlog>>
       ELSE /\ Crash("RuntimeError", << >>)
            /\ jlog' = jlog \o << <<"jitter">>, <<"delaunay">> >>
    /\ UNCHANGED <<args, jobs, ji, cur, shape_spec, files, outputs, field, z0>>
    /\ UNCHANGED <<evars, pvars>>

\* marching_tetrahedra: try: import torch; import kaolin
\* except ImportError: raise RuntimeError
MtImport ==
    /\ jpc = "mt"
    /\ IF {"torch", "kaolin"} \subseteq files
       THEN jpc' = "mt_sample" /\ UNCHANGED jerr
       ELSE Crash("RuntimeError", << >>)
    /\ UNCHANGED <<args, jobs, ji, cur, shape_spec, files, outputs, field,
                   z0, jlog>>
    /\ UNCHANGED <<evars, pvars>>

\* noisy_points = points + noise; delaunay = spatial.Delaunay(noisy_points)
MtSample ==
    /\ jpc = "mt_sample"
    /\ \E noise \in Noises :
          cur' = [cur EXCEPT
                    !.points = [i \in 1..Len(@) |->
                                   [c \in 1..3 |-> @[i][c] + noise[c]]]]
    /\ jlog' = jlog \o << <<"jitter">>, <<"delaunay">> >>
    /\ jpc' = "mt_mesh"
    /\ UNCHANGED <<args, jobs, ji, shape_spec, files, outputs, field, z0,
                   jerr>>
    /\ UNCHANGED <<evars, pvars>>

\* sdf_values = evaluate_shape(noisy_points, shape_spec), then kaolin's
\* marching_tetrahedra; verts and faces are returned
MtMesh ==
    /\ jpc = "mt_mesh"
    /\ \E r \in {evaluate_shape(cur.points, shape_spec)} :
          IF r.ok
          THEN /\ field' = r.vals
               /\ jlog' = jlog \o << <<"evaluate">>, <<"mesh", "mt">> >>
               /\ jpc' = "deliver"
               /\ UNCHANGED jerr
          ELSE /\ Crash(r.err, r.at)
               /\ jlog' = Append(jlog, <<"evaluate">>)
               /\ UNCHANGED field
    /\ UNCHANGED <<args, jobs, ji, cur, shape_spec, files, outputs, z0>>
    /\ UNCHANGED <<evars, pvars>>

\* if args.output: mesh.export(args.output); if args.viz: polyscope
Deliver ==
    /\ jpc = "deliver"
    /\ outputs' = IF args.output # "" THEN outputs \cup {args.output}
                  ELSE outputs
    /\ jlog' = jlog
               \o (IF args.output # "" THEN << <<"export", args.output>> >>
                   ELSE << >>)
               \o (IF args.viz THEN << <<"viz">> >> ELSE << >>)
    /\ jpc' = "exit"
    /\ UNCHANGED <<args, jobs, ji, cur, shape_spec, files, field, z0, jerr>>
    /\ UNCHANGED <<evars, pvars>>

NextExtract ==
    \/ LoadModule
    \/ EnterMain
    \/ McPath
    \/ MtImport
    \/ MtSample
    \/ MtMesh
    \/ Deliver

SpecExtract == InitExtract /\ [][NextExtract]_vars

(***************************************************************************)
(* Plane nodes evaluated through evaluate_shape                            *)
(***************************************************************************)
PlaneNormals == {<<x, y, z>> : x \in {0, 3000, -4000}, y \in {0, 3000, -4000},
                               z \in {0, 3000, -4000}}

PlaneSpecs ==
    LET bare == {Node("sdf_plane")}
                \cup {With(Node("sdf_plane"), "normal", n) :
                         n \in PlaneNormals}
    IN  bare \cup {With(d, "offset", o) : d \in bare, o \in {500, -250}}

InitPlane ==
    /\ spec \in PlaneSpecs
    /\ points \in PointBatches
    /\ pc = {}
    /\ resolved = NotRun
    /\ again = NotRun
    /\ result = NotRun
    /\ JobsIdle

\* result = evaluate_shape(points, spec)
PlaneCall ==
    /\ "called" \notin pc
    /\ result' = evaluate_shape(points, spec)
    /\ pc' = pc \cup {"called"}
    /\ UNCHANGED <<spec, points, resolved, again>>
    /\ UNCHANGED <<jvars, pvars>>

NextPlane == PlaneCall

SpecPlane == InitPlane /\ [][NextPlane]_vars

(***************************************************************************)
(* hash_vec3 called twice on one row of lattice indices.  With an index of *)
(* 10^9 the products of the first line exceed 2^63, with 10^5 the shift    *)
(* does, and the polynomial wraps for almost every row.                    *)
(***************************************************************************)
LatticeIndices == {-1000000000, -100000, -1, 0, 1, 2, 100000, 1000000000}

InitHash ==
    /\ spec = << >>
    /\ points \in {<< <<x, y, z>> >> : x \in LatticeIndices,
                                       y \in LatticeIndices,
                                       z \in LatticeIndices}
    /\ pc = {}
    /\ resolved = NotRun
    /\ again = NotRun
    /\ result = NotRun
    /\ JobsIdle

\* result = hash_vec3(values)
HashCall ==
    /\ pc = {}
    /\ result' = [ok |-> TRUE, vals |-> <<hash_vec3(points[1])>>,
                  seed |-> HashSeed(points[1])]
    /\ pc' = {"called"}
    /\ UNCHANGED <<spec, points, resolved, again>>
    /\ UNCHANGED <<jvars, pvars>>

\* a later call with the same values
HashAgain ==
    /\ pc = {"called"}
    /\ again' = [ok |-> TRUE, vals |-> <<hash_vec3(points[1])>>]
    /\ pc' = {"called", "again"}
    /\ UNCHANGED <<spec, points, resolved, result>>
    /\ UNCHANGED <<jvars, pvars>>

NextHash == HashCall \/ HashAgain

SpecHash == InitHash /\ [][NextHash]_vars

(***************************************************************************)
(* Objects.  The interpreter's heap is a sequence of objects, an address   *)
(* is an index into it.  A dict holds a reference for each key, a list of  *)
(* nodes holds references to dicts, a list of numbers holds its numbers;   *)
(* a reference is an address or a number or string.  The caller's tree and *)
(* the two tables of defaults are objects of the heap, and so is every     *)
(* dict and list the resolver and the evaluator create.                    *)
(***************************************************************************)
Ref(a) == [addr |-> a]

Val(x) == [val |-> x]

IsRef(r) == "addr" \in DOMAIN r

Obj(kind, items) == [kind |-> kind, items |-> items]

\* d[k] = r for the dict at address a
Put(h, a, k, r) == [h EXCEPT ![a].items = Overlay(@, [x \in {k} |-> r])]

\* keys whose values are lists
IsListKey(t, k) ==
    k \in VectorKeys \/ k = "warp_matrix" \/ (k = "offset" /\ t # "sdf_plane")

\* the keys of the dict value d, other than children, written into the
\* dict at address a
RECURSIVE StoreKeys(_, _, _, _, _)
StoreKeys(h, t, d, keys, a) ==
    IF keys = {} \/ a > Len(h) THEN h
    ELSE LET k == CHOOSE x \in keys : TRUE
         IN  IF IsListKey(t, k)
             THEN StoreKeys(Put(Append(h, Obj("list", d[k])), a, k,
                                Ref(Len(h) + 1)),
                            t, d, keys \ {k}, a)
             ELSE StoreKeys(Put(h, a, k, Val(d[k])), t, d, keys \ {k}, a)

RECURSIVE StoreNode(_, _)

RECURSIVE StoreChildren(_, _, _, _)
StoreChildren(h, children, i, refs) ==
    IF i > Len(children) \/ Len(refs) > Len(h) THEN [h |-> h, refs |-> refs]
    ELSE StoreChildren(StoreNode(h, children[i]).h, children, i + 1,
                       Append(refs, Ref(Len(h) + 1)))

\* the list of the children stored and bound to the key children of a
StoreList(cs, a) ==
    Put(Append(cs.h, Obj("nodes", cs.refs)), a, "children",
        Ref(Len(cs.h) + 1))

\* a tree as its author wrote it, stored from address Len(h) + 1 on
StoreNode(h, node) ==
    [addr |-> Len(h) + 1,
     h |-> IF "children" \in DOMAIN node
           THEN StoreList(
                    StoreChildren(
                        StoreKeys(Append(h, Obj("dict", << >>)),
                                  IF "type" \in DOMAIN node
                                  THEN node["type"] ELSE "",
                                  node, DOMAIN node \ {"children"},
                                  Len(h) + 1),
                        node["children"], 1, << >>),
                    Len(h) + 1)
           ELSE StoreKeys(Append(h, Obj("dict", << >>)),
                          IF "type" \in DOMAIN node THEN node["type"] ELSE "",
                          node, DOMAIN node, Len(h) + 1)]

\* DEFAULT_SHAPE_PARAMS: one dict per type, bound in the dict at address a
RECURSIVE StoreTable(_, _, _)
StoreTable(h, types, a) ==
    IF types = {} \/ a > Len(h) THEN h
    ELSE LET t == CHOOSE x \in types : TRUE
         IN  StoreTable(
                 Put(StoreKeys(Append(h, Obj("dict", << >>)), t,
                               DEFAULT_SHAPE_PARAMS[t],
                               DOMAIN DEFAULT_SHAPE_PARAMS[t], Len(h) + 1),
                     a, t, Ref(Len(h) + 1)),
                 types \ {t}, a)

\* the module's globals: BASE_DEFAULTS, then DEFAULT_SHAPE_PARAMS
Globals ==
    LET b == StoreKeys(<<Obj("dict", << >>)>>, "", BASE_DEFAULTS,
                       DOMAIN BASE_DEFAULTS, 1)
    IN  [base |-> 1, params |-> Len(b) + 1,
         h |-> StoreTable(Append(b, Obj("dict", << >>)),
                          DOMAIN DEFAULT_SHAPE_PARAMS, Len(b) + 1)]

\* the value an object holds, read through its references
RECURSIVE Deref(_, _)
Deref(h, r) ==
    IF ~IsRef(r) THEN r.val
    ELSE CASE h[r.addr].kind = "dict" ->
                [k \in DOMAIN h[r.addr].items |->
                    Deref(h, h[r.addr].items[k])]
           [] h[r.addr].kind = "nodes" ->
                [i \in 1..Len(h[r.addr].items) |->
                    Deref(h, h[r.addr].items[i])]
           [] h[r.addr].kind = "list" -> h[r.addr].items

\* copy.deepcopy(value) stored under merged[key], for every key of the
\* dict at src
RECURSIVE CopyKeys(_, _, _, _)
CopyKeys(h, src, keys, dst) ==
    IF keys = {} \/ dst > Len(h) THEN h
    ELSE LET k == CHOOSE x \in keys : TRUE
         IN  IF IsRef(h[src].items[k])
             THEN CopyKeys(Put(Append(h, h[h[src].items[k].addr]), dst, k,
                               Ref(Len(h) + 1)),
                           src, keys \ {k}, dst)
             ELSE CopyKeys(Put(h, dst, k, h[src].items[k]), src,
                           keys \ {k}, dst)

CopyDefaults(h, src, dst) == CopyKeys(h, src, DOMAIN h[src].items, dst)

\* merged[key] = value for the caller's keys other than type and children
ShareKeys(h, src, dst) ==
    [h EXCEPT ![dst].items =
        Overlay(@, Restrict(h[src].items,
                            DOMAIN h[src].items \ {"type", "children"}))]

\* variant: the caller's dict is filled in place
NewMergedInPlace(h, a) == [h |-> h, addr |-> a]

\* shape_type = spec["type"]; merged = {"type": shape_type}
NewMerged(h, a) ==
    [h |-> Append(h, Obj("dict", [k \in {"type"} |-> h[a].items["type"]])),
     addr |-> Len(h) + 1]

RECURSIVE MergeHeap(_, _, _)

\* [merge_defaults(child) for child in spec["children"]], from child i on
RECURSIVE MergeChildren(_, _, _, _, _)
MergeChildren(h, g, kids, i, refs) ==
    IF i > Len(kids) THEN [ok |-> TRUE, h |-> h, refs |-> refs]
    ELSE LET r == MergeHeap(h, g, kids[i].addr)
         IN  IF ~r.ok THEN r
             ELSE MergeChildren(r.h, g, kids, i + 1, Append(refs, Ref(r.addr)))

\* merged["children"] = [...]; return merged
MergeReturn(cs, m) ==
    IF ~cs.ok THEN cs
    ELSE [ok |-> TRUE, addr |-> m,
          h |-> Put(Append(cs.h, Obj("nodes", cs.refs)), m, "children",
                    Ref(Len(cs.h) + 1))]

\* the part of merge_defaults after the three loops over keys
MergeTail(h, g, a, m) ==
    IF "children" \notin DOMAIN h[a].items
    THEN [ok |-> TRUE, addr |-> m, h |-> h]
    ELSE MergeReturn(
             MergeChildren(h, g, h[h[a].items["children"].addr].items, 1,
                           << >>),
             m)

\* the three loops: BASE_DEFAULTS, the type's defaults, the caller's keys
MergeLoops(m, g, a) ==
    MergeTail(
        ShareKeys(
            CopyDefaults(
                CopyDefaults(m.h, g.base, m.addr),
                m.h[g.params].items[m.h[a].items["type"].val].addr, m.addr),
            a, m.addr),
        g, a, m.addr)

\* merge_defaults on the dict at address a; g holds the addresses of the
\* two tables
MergeHeap(h, g, a) ==
    IF "type" \notin DOMAIN h[a].items
    THEN [ok |-> FALSE, h |-> h, err |-> "MissingType"]
    ELSE IF h[a].items["type"].val \notin SDF_EVALUATORS
    THEN [ok |-> FALSE, h |-> h, err |-> "UnknownShapeType"]
    ELSE MergeLoops(NewMerged(h, a), g, a)

RECURSIVE EvalHeap(_, _)

\* eval_child(child) for the children from i on, in order
RECURSIVE EvalKids(_, _, _)
EvalKids(h, kids, i) ==
    IF i > Len(kids) THEN [ok |-> TRUE, h |-> h]
    ELSE LET r == EvalHeap(h, kids[i].addr)
         IN  IF ~r.ok THEN r ELSE EvalKids(r.h, kids, i + 1)

\* the evaluator of the node's type: the combinators check their children
\* and evaluate them, the other evaluators work on arrays of their own
EvalKernel(h, shape_type, kids) ==
    IF shape_type \in {"sdf_union", "sdf_intersection"} /\ Len(kids) = 0
    THEN [ok |-> FALSE, h |-> h, err |-> "ArityError"]
    ELSE IF shape_type = "sdf_difference" /\ Len(kids) # 2
    THEN [ok |-> FALSE, h |-> h, err |-> "ArityError"]
    ELSE IF shape_type \in Combinators THEN EvalKids(h, kids, 1)
    ELSE [ok |-> TRUE, h |-> h]

\* _evaluate_shape_recursive on the resolved dict at address a:
\* data = dict(spec), the four pops on data, the scale test, the evaluator
EvalHeap(h, a) ==
    IF h[a].items["scale"].val <= 0
    THEN [ok |-> FALSE, err |-> "InvalidScale",
          h |-> Append(h, Obj("dict",
                   Restrict(h[a].items,
                            DOMAIN h[a].items
                               \ {"type", "children", "translate", "scale"})))]
    ELSE EvalKernel(
             Append(h, Obj("dict",
                 Restrict(h[a].items,
                          DOMAIN h[a].items
                             \ {"type", "children", "translate", "scale"}))),
             h[a].items["type"].val,
             IF "children" \in DOMAIN h[a].items
             THEN h[h[a].items["children"].addr].items ELSE << >>)

\* evaluate_shape: resolved = merge_defaults(spec), then the evaluation
EvaluateHeap(r) == IF ~r.ok THEN r ELSE EvalHeap(r.h, r.addr)

(***************************************************************************)
(* A caller that holds one tree and calls merge_defaults and               *)
(* evaluate_shape on it, in any order.  resolved is the heap with the      *)
(* addresses of the tables and of the caller's tree and a copy of the heap *)
(* as it was before the first call; again lists the outcome of every call. *)
(***************************************************************************)
MaxCalls == 2

FrameTrees == Chain(1) \cup Chain(2)

\* the heap once the module is loaded and the caller has built the tree
Loaded(g, tree) ==
    [h |-> StoreNode(g.h, tree).h, h0 |-> StoreNode(g.h, tree).h,
     base |-> g.base, params |-> g.params, spec |-> Len(g.h) + 1]

InitFrame ==
    /\ spec \in FrameTrees
    /\ points = << <<3000, 0, 0>> >>
    /\ pc = {}
    /\ resolved = Loaded(Globals, spec)
    /\ again = << >>
    /\ result = NotRun
    /\ JobsIdle

\* what the caller keeps of a call: how it ended and, for a tree that
\* merge_defaults returned, the tree
Outcome(call, r) ==
    IF ~r.ok THEN [call |-> call, ok |-> FALSE, err |-> r.err]
    ELSE IF call = "merge_defaults"
    THEN [call |-> call, ok |-> TRUE, val |-> Deref(r.h, Ref(r.addr))]
    ELSE [call |-> call, ok |-> TRUE]

\* merge_defaults(spec)
FrameMerge ==
    /\ Len(again) < MaxCalls
    /\ \E r \in {MergeHeap(resolved.h, resolved, resolved.spec)} :
          /\ resolved' = [resolved EXCEPT !.h = r.h]
          /\ again' = Append(again, Outcome("merge_defaults", r))
    /\ UNCHANGED <<spec, points, pc, result>>
    /\ UNCHANGED <<jvars, pvars>>

\* evaluate_shape(points, spec)
FrameEvaluate ==
    /\ Len(again) < MaxCalls
    /\ \E r \in {EvaluateHeap(MergeHeap(resolved.h, resolved,
                                        resolved.spec))} :
          /\ resolved' = [resolved EXCEPT !.h = r.h]
          /\ again' = Append(again, Outcome("evaluate_shape", r))
    /\ UNCHANGED <<spec, points, pc, result>>
    /\ UNCHANGED <<jvars, pvars>>

NextFrame == FrameMerge \/ FrameEvaluate

SpecFrame == InitFrame /\ [][NextFrame]_vars

(***************************************************************************)
(* Tree addressing                                                         *)
(***************************************************************************)
HasChildren(n) == "children" \in DOMAIN n

RECURSIVE Paths(_)
Paths(n) ==
    {<< >>} \cup
    (IF HasChildren(n)
     THEN UNION {{<<i>> \o q : q \in Paths(n["children"][i])} :
                    i \in 1..Len(n["children"])}
     ELSE {})

RECURSIVE NodeAt(_, _)
NodeAt(n, path) ==
    IF path = << >> THEN n
    ELSE NodeAt(n["children"][Head(path)], Tail(path))

BaseDefault(k) == IF k = "translate" THEN <<0, 0, 0>> ELSE 1000

\* C1: in the tree merge_defaults returns, every node at every depth has
\* every key of both default layers and of the caller, and each key other
\* than type/children holds the caller's value if the caller gave one, else
\* the type's default-table value, else the base default.
C1_UserWins ==
    ("merged" \in pc /\ resolved.ok) =>
        /\ Paths(resolved.val) = Paths(spec)
        /\ \A q \in Paths(spec) :
            LET m == NodeAt(resolved.val, q)
                u == NodeAt(spec, q)
                table == DEFAULT_SHAPE_PARAMS[u["type"]]
            IN  /\ DOMAIN m \ {"children"} =
                      {"type", "translate", "scale"} \cup DOMAIN table
                          \cup (DOMAIN u \ {"children"})
                /\ \A k \in DOMAIN m \ {"type", "children"} :
                      m[k] = IF k \in DOMAIN u THEN u[k]
                             ELSE IF k \in DOMAIN table THEN table[k]
                             ELSE BaseDefault(k)

\* a resolved tree with a node two levels down that overrides both a base
\* default and a type default
C1_Witness ==
    /\ "merged" \in pc
    /\ resolved.ok
    /\ \E q \in Paths(spec) :
          /\ Len(q) >= 2
          /\ {"radius", "scale"} \subseteq DOMAIN NodeAt(spec, q)
          /\ NodeAt(resolved.val, q)["radius"] = 2000
          /\ NodeAt(resolved.val, q)["scale"] = 2000

\* C2: resolving a resolved tree returns the same tree, key for key and
\* child for child.
C2_Idempotent ==
    "again" \in pc => (again.ok /\ again.val = resolved.val)

\* a tree nested two levels, whose innermost node has no children key,
\* resolved twice
C2_Witness ==
    /\ "again" \in pc
    /\ \E q \in Paths(spec) : Len(q) >= 2 /\ ~HasChildren(NodeAt(spec, q))

BadType(n) == "type" \notin DOMAIN n \/ n["type"] \notin SDF_EVALUATORS

KernelCalls(tr) == {i \in 1..Len(tr) : tr[i][1] = "kernel"}

\* C3: when some node at some depth has an unregistered type or no type,
\* merge_defaults raises and returns no tree, and evaluate_shape raises
\* without having called any evaluator.
C3_UnknownTypeFatal ==
    (\E q \in Paths(spec) : BadType(NodeAt(spec, q))) =>
        /\ "merged" \in pc =>
              (~resolved.ok /\ "val" \notin DOMAIN resolved
                 /\ resolved.err \in {"MissingType", "UnknownShapeType"})
        /\ "evaluated" \in pc =>
              (~result.ok /\ "vals" \notin DOMAIN result
                 /\ result.err \in {"MissingType", "UnknownShapeType"}
                 /\ KernelCalls(result.trace) = {})

\* an unregistered type two levels down, below registered ancestors
C3_Witness ==
    /\ {"merged", "evaluated"} \subseteq pc
    /\ \E q \in Paths(spec) :
          /\ Len(q) >= 2
          /\ BadType(NodeAt(spec, q))
          /\ \A j \in 0..(Len(q) - 1) : ~BadType(NodeAt(spec, SubSeq(q, 1, j)))

(***************************************************************************)
(* Evaluated nodes of the resolved tree                                    *)
(***************************************************************************)
Resolved == merge_defaults(spec)

Evaluated == "evaluated" \in pc /\ Resolved.ok

NumChildren(n) == IF HasChildren(n) THEN Len(n["children"]) ELSE 0

ArityViolated(n) ==
    \/ n["type"] \in {"sdf_union", "sdf_intersection"} /\ NumChildren(n) = 0
    \/ n["type"] = "sdf_difference" /\ NumChildren(n) # 2

\* _evaluate_shape_recursive was entered for the node at path q
Entered(q) == \E i \in 1..Len(result.trace) : result.trace[i] = <<"eval", q>>

\* the points handed to the node at path q when every ancestor hands its
\* local points on to its children
RECURSIVE PointsAt(_, _, _)
PointsAt(n, pts, q) ==
    IF q = << >> THEN pts
    ELSE PointsAt(n["children"][Head(q)],
                  [i \in 1..Len(pts) |->
                      VDivS(VSub(pts[i], n["translate"]), n["scale"])],
                  Tail(q))

ValueAt(q) ==
    evaluate_shape_recursive(PointsAt(Resolved.val, points, q),
                             NodeAt(Resolved.val, q), q)

\* C4 as stated: an evaluated union/intersection without children, or
\* difference without exactly two, makes the evaluation fail with an arity
\* error.
C4_AsStated ==
    Evaluated =>
        \A q \in Paths(Resolved.val) :
            (Entered(q) /\ ArityViolated(NodeAt(Resolved.val, q))) =>
                (~result.ok /\ result.err = "ArityError")

\* C4 (amended): an evaluated union/intersection without children
\* (children key absent or empty), or difference without exactly two
\* children, whose own scale is > 0 makes the evaluation fail with an arity
\* error raised at that node and no distances returned; with scale <= 0 the
\* error is the invalid-scale error instead.  An arity error is raised
\* only at a node that violates its arity.
C4_Arity ==
    Evaluated =>
        /\ \A q \in Paths(Resolved.val) :
            LET n == NodeAt(Resolved.val, q)
            IN  (Entered(q) /\ ArityViolated(n)) =>
                    /\ ~result.ok
                    /\ "vals" \notin DOMAIN result
                    /\ result.at = q
                    /\ result.err =
                          IF n["scale"] > 0 THEN "ArityError" ELSE "InvalidScale"
        /\ (~result.ok /\ result.err = "ArityError") =>
              /\ ArityViolated(NodeAt(Resolved.val, result.at))
              /\ NodeAt(Resolved.val, result.at)["scale"] > 0

\* a difference with three children below the root, and a union without a
\* children key, raising the arity error
C4_Witness ==
    /\ Evaluated
    /\ ~result.ok
    /\ result.err = "ArityError"
    /\ Len(result.at) >= 1
    /\ \/ /\ NodeAt(Resolved.val, result.at)["type"] = "sdf_difference"
          /\ NumChildren(NodeAt(Resolved.val, result.at)) = 3
       \/ /\ NodeAt(Resolved.val, result.at)["type"] = "sdf_union"
          /\ ~HasChildren(NodeAt(Resolved.val, result.at))

\* C6 as stated: a tree with a node of scale <= 0 is never evaluated
\* successfully; evaluation raises and returns no distances.
C6_AsStated ==
    (Evaluated /\ \E q \in Paths(Resolved.val) :
                      NodeAt(Resolved.val, q)["scale"] <= 0) =>
        (~result.ok /\ "vals" \notin DOMAIN result)

SetMin(S) == CHOOSE x \in S : \A y \in S : x <= y

SetMax(S) == CHOOSE x \in S : \A y \in S : x >= y

TimesEntered(tr, q) == Cardinality({i \in 1..Len(tr) : tr[i] = <<"eval", q>>})

\* C7: at every evaluated combinator that returns, each point's value is
\* (before the node's rescale by its scale) the minimum of the children's
\* values for a union, the maximum for an intersection, and
\* max(first, -second) for a difference, the children taken in the caller's
\* order; each child is evaluated exactly once.
C7_CsgLaws ==
    (Evaluated /\ result.ok) =>
        \A q \in Paths(Resolved.val) :
            LET n == NodeAt(Resolved.val, q)
                t == n["type"]
                v == ValueAt(q)
                c(i) == ValueAt(Append(q, i))
                kids == 1..NumChildren(n)
            IN  (Entered(q) /\ t \in {"sdf_union", "sdf_intersection",
                                      "sdf_difference"}) =>
                  /\ v.ok
                  /\ \A i \in kids :
                        /\ c(i).ok
                        /\ TimesEntered(v.trace, Append(q, i)) = 1
                        /\ NodeAt(spec, Append(q, i))["type"] =
                              NodeAt(Resolved.val, Append(q, i))["type"]
                  /\ \A p \in 1..Len(points) :
                        v.vals[p] =
                          FMul(CASE t = "sdf_union" ->
                                      SetMin({c(i).vals[p] : i \in kids})
                                 [] t = "sdf_intersection" ->
                                      SetMax({c(i).vals[p] : i \in kids})
                                 [] t = "sdf_difference" ->
                                      Max2(c(1).vals[p], -c(2).vals[p]),
                               n["scale"])
                  /\ q = << >> => v.vals = result.vals

\* a difference of two children with different distances, evaluated
C7_Witness ==
    /\ Evaluated
    /\ result.ok
    /\ \E q \in Paths(Resolved.val) :
          /\ Entered(q)
          /\ NodeAt(Resolved.val, q)["type"] = "sdf_difference"
          /\ ValueAt(Append(q, 1)).vals # ValueAt(Append(q, 2)).vals

\* a sphere, or a union/intersection of exactly one such chain
RECURSIVE IsChain(_)
IsChain(n) ==
    \/ n["type"] = "sdf_sphere"
    \/ /\ n["type"] \in {"sdf_union", "sdf_intersection"}
       /\ NumChildren(n) = 1
       /\ IsChain(n["children"][1])

\* s * kernel((p - t) / s), the kernel of a one-child combinator being its
\* child taken at the same local point
RECURSIVE ChainValue(_, _)
ChainValue(n, p) ==
    LET lp == VDivS(VSub(p, n["translate"]), n["scale"])
    IN  FMul(IF n["type"] = "sdf_sphere" THEN Norm(lp) - n["radius"]
             ELSE ChainValue(n["children"][1], lp),
             n["scale"])

\* C8: a sphere node with translate t, scale s returns s * (|(p - t)/s| - r);
\* below a one-child combinator (t1, s1) a sphere (t2, s2) sees
\* ((p - t1)/s1 - t2)/s2 and its distance is multiplied by s2, then s1; the
\* same holds along longer one-child chains.  The radius-1 sphere with
\* translate (1,0,0), scale 2 is 0 at (3,0,0).
C8_Transform ==
    (Evaluated /\ result.ok) =>
        LET n == Resolved.val
        IN  /\ n["type"] = "sdf_sphere" =>
                \A p \in 1..Len(points) :
                    result.vals[p] =
                        FMul(Norm(VDivS(VSub(points[p], n["translate"]),
                                        n["scale"])) - n["radius"],
                             n["scale"])
            /\ (n["type"] \in {"sdf_union", "sdf_intersection"}
                  /\ NumChildren(n) = 1
                  /\ n["children"][1]["type"] = "sdf_sphere") =>
                LET c == n["children"][1]
                IN  \A p \in 1..Len(points) :
                      result.vals[p] =
                        FMul(FMul(Norm(VDivS(VSub(VDivS(VSub(points[p],
                                                          n["translate"]),
                                                     n["scale"]),
                                               c["translate"]),
                                          c["scale"])) - c["radius"],
                                  c["scale"]),
                             n["scale"])
            /\ IsChain(n) =>
                \A p \in 1..Len(points) :
                    result.vals[p] = ChainValue(n, points[p])
            /\ (spec = Moved(UnitSphere) /\ points[1] = <<3000, 0, 0>>) =>
                    result.vals[1] = 0

\* a moved and scaled sphere below a moved and scaled union, evaluated
C8_Witness ==
    /\ Evaluated
    /\ result.ok
    /\ spec["type"] = "sdf_union"
    /\ NumChildren(spec) = 1
    /\ spec["children"][1] \in {BigSphere, Moved(UnitSphere)}
    /\ "scale" \in DOMAIN spec
    /\ spec["scale"] = 2000

\* the sphere of the example, evaluated at (3,0,0)
C8_Example ==
    /\ Evaluated
    /\ spec = Moved(UnitSphere)
    /\ points[1] = <<3000, 0, 0>>
    /\ result.ok

\* C9: the Menger kernel makes exactly `iterations` folding steps, and
\* with iterations = 0 it makes none and returns the plain box distance of
\* half_size.
C9_AsStated ==
    "called" \in pc =>
        \A i \in 1..Len(points) :
            /\ result.folds[i] = spec.iterations
            /\ spec.iterations = 0 =>
                   result.vals[i] =
                       FMul(MengerBox([c \in 1..3 |->
                                FDiv(points[i][c], spec.half_size)]),
                            spec.half_size)

\* C10: sd_fbm makes exactly `octaves` rounds; with octaves = 0 the value
\* returned equals base_distance element for element; the caller's
\* base_distance and points are as they were.
C10_Fbm ==
    "called" \in pc =>
        /\ result.rounds = spec.octaves
        /\ result.points = points
        /\ result.base_distance = spec.base_distance
        /\ spec.octaves = 0 =>
               /\ Len(result.result) = Len(spec.base_distance)
               /\ \A i \in 1..Len(spec.base_distance) :
                      result.result[i] = spec.base_distance[i]

C10_Witness ==
    /\ "called" \in pc
    /\ spec.octaves = 0
    /\ spec.variant = "simplex"
    /\ spec.blend > 0
    /\ Len(points) = 2
    /\ result.result = spec.base_distance

\* C5: in a batch job, an unknown type or an arity error at any node of
\* the shape is detected before the backing store is created, before any
\* kernel is invoked on a grid point and before any cell is written.
C5_AsStated ==
    (jpc = "crashed" /\ jerr.err \in {"UnknownShapeType", "ArityError"}) =>
        \A n \in 1..Len(jlog) :
            jlog[n][2] = ji =>
                /\ jlog[n][1] \notin {"create", "write"}
                /\ jlog[n][1] = "kernel" =>
                       NodeAt(shape_spec, jlog[n][3])["type"] \in Combinators

\* the value the evaluator gives for the grid point of one cell, as stored
CellValue(s, axes, cell) ==
    AsFloat32(evaluate_shape(
        << <<axes[1][cell[1]], axes[2][cell[2]], axes[3][cell[3]]>> >>,
        s).vals[1])

\* the values of the field after one slab of thickness resolution
SinglePass(s, axes, resolution) ==
    LET r == evaluate_shape(Grid(axes, resolution, 0, resolution), s)
    IN  [cell \in Cells(resolution) |->
            AsFloat32(r.vals[RowOf(resolution, resolution,
                                   cell[1], cell[2], cell[3])])]

\* the field holds, written once per cell, the values `once` and the
\* evaluator's value at every grid point
WrittenOnceAs(once, axes) ==
    /\ DOMAIN field = DOMAIN once
    /\ \A cell \in DOMAIN once :
          /\ field[cell].writes = 1
          /\ field[cell].val = once[cell]
          /\ field[cell].val = CellValue(shape_spec, axes, cell)

\* C11: for every resolution and every slab thickness c >= 1, when
\* evaluate_field_chunked returns every cell has been written exactly once
\* and holds the evaluator's value at its grid point, which is the field a
\* single slab c = resolution gives.
C11_ChunkedIsSinglePass ==
    (jpc = "flushed" /\ cur.chunk >= 1) =>
        WrittenOnceAs(SinglePass(shape_spec,
                                 linspace_axes(cur.resolution, cur.bounds),
                                 cur.resolution),
                      linspace_axes(cur.resolution, cur.bounds))

\* a field of 27 cells written in slabs of 2 and 1, with distinct values
C11_Witness ==
    /\ jpc = "flushed"
    /\ cur.resolution = 3
    /\ cur.chunk = 2
    /\ z0 = 4
    /\ \A cell \in Cells(3) : field[cell].writes = 1
    /\ field[<<1, 2, 3>>].val # field[<<3, 2, 1>>].val

\* main has returned or an exception has ended the program
RunEnded == jpc = "crashed" \/ (jpc = "next" /\ ji > Len(jobs))

\* job k was taken up by run_job and ran to its end or to its own error
Processed(k) ==
    \E n \in 1..Len(jlog) : jlog[n][1] \in {"done", "fail"} /\ jlog[n][2] = k

\* C12: when one job of the list fails with a fatal error, the failure is
\* reported and every other job of the list is still run; a failing job
\* never keeps the jobs after it from being processed.
C12_AsStated ==
    RunEnded => \A k \in 1..Len(jobs) : Processed(k)

\* C13: marching_cubes_from_field is invoked only on a field in which every
\* cell has been written with the evaluator's value for the job's shape,
\* whatever resolution and chunk the job or the command line supply.
C13_AsStated ==
    jpc = "extracted" =>
        /\ DOMAIN field = Cells(cur.resolution)
        /\ \A cell \in Cells(cur.resolution) :
              /\ field[cell].writes >= 1
              /\ field[cell].val =
                     CellValue(shape_spec,
                               linspace_axes(cur.resolution, cur.bounds), cell)

\* the field a worker's own job gives
OwnField(w) ==
    SinglePass(workers[w].shape_spec,
               linspace_axes(workers[w].job["resolution"], DEFAULT_BOUNDS),
               workers[w].job["resolution"])

\* C14: two distinct jobs run at once on one scratch directory: under every
\* interleaving neither job's backing store is truncated, overwritten or
\* deleted by the other, and each extraction reads the field its job wrote.
C14_AsStated ==
    /\ foreign = {}
    /\ \A w \in Workers :
          workers[w].pc \in {"extracted", "exported", "done"} =>
              workers[w].read = OwnField(w)

\* the place of an event in the life of a job's field
Stage(ev) ==
    CASE ev[1] = "start" -> 0
      [] ev[1] = "create" -> 1
      [] ev[1] \in {"kernel", "write"} -> 2
      [] ev[1] = "flush" -> 3
      [] ev[1] = "extract" -> 4
      [] ev[1] = "export" -> 5
      [] ev[1] = "unlink" -> 6
      [] ev[1] \in {"done", "fail"} -> 7

\* the events of every job come in the order of the stages
InLifecycleOrder ==
    \A m \in 1..Len(jlog), n \in 1..Len(jlog) :
        (m < n /\ jlog[m][2] = jlog[n][2]) => Stage(jlog[m]) <= Stage(jlog[n])

\* job k removed its backing file
Unlinked(k) ==
    \E n \in 1..Len(jlog) : jlog[n][1] = "unlink" /\ jlog[n][2] = k

\* run_job has just returned from a job that completed
JustCompleted == jpc = "next" /\ ji > 1

\* C15 as stated: writes, flush, extraction, export, deletion come in this
\* order in every job, and after a job that completes the backing file no
\* longer exists.
C15_AsStated ==
    /\ InLifecycleOrder
    /\ JustCompleted => FieldPath(shape_spec, cur.resolution) \notin files

\* C15: writes, flush, extraction, export, deletion come in this order in
\* every job (no write after the extraction, no deletion before the export);
\* after a job that completes the backing file no longer exists, unless the
\* unlink raised an OSError, which run_job swallows.
C15_Lifecycle ==
    /\ InLifecycleOrder
    /\ JustCompleted =>
          /\ Unlinked(ji - 1) =>
                 FieldPath(shape_spec, cur.resolution) \notin files
          /\ ~Unlinked(ji - 1) =>
                 FieldPath(shape_spec, cur.resolution) \in files

\* a job of two slabs has completed and its backing file is gone
C15_Witness ==
    /\ JustCompleted
    /\ ji = 2
    /\ Unlinked(1)
    /\ files = {}
    /\ \E m \in 1..Len(jlog), n \in 1..Len(jlog) :
          m < n /\ jlog[m][1] = "write" /\ jlog[n][1] = "write"
    /\ \E n \in 1..Len(jlog) : jlog[n][1] = "export"

\* run_job has ended, by returning or by an exception, for job k
RunJobEnded(k) ==
    \/ jpc = "crashed" /\ k = ji
    \/ JustCompleted /\ k = ji - 1

\* C19: whenever run_job ends, normally or because a slab's evaluation, the
\* extraction or the export raised, the job's backing file has been removed
\* from the scratch directory.
C19_AsStated ==
    \A k \in 1..Len(jobs) :
        RunJobEnded(k) =>
            \A n \in 1..Len(jlog) :
                (jlog[n][1] = "create" /\ jlog[n][2] = k) =>
                    jlog[n][3] \notin files

InKernel == "entered" \in pc

KernelReturned == "returned" \in pc

\* C16: with solid_radius = 0, a lane whose r is at most eps is left as it
\* is by every round (its z, dr and r keep their values and no quotient or
\* logarithm is taken for it), and the distance returned for it is exactly
\* 0, not NaN, with no estimate taken, whatever power, bailout and
\* max_iterations are.
C16_ZeroRadiusIsInert ==
    [][InKernel /\ resolved.val["solid_radius"] = 0 =>
         \A i \in 1..Len(result.lanes) :
            result.lanes[i].r <= FractalEps =>
               /\ ~Active(result.lanes[i].r, resolved.val["bailout"])
               /\ result'.lanes[i] = result.lanes[i]
               /\ KernelReturned' =>
                     result'.dist[i] = [nan |-> FALSE, val |-> 0,
                                        est |-> FALSE]]_vars

\* a lane that started at the origin and one that a round brought to the
\* origin have both been returned after at least one round
C16_Witness ==
    /\ KernelReturned
    /\ resolved.val["solid_radius"] = 0
    /\ result.rounds >= 1
    /\ \E i, j \in 1..Len(result.lanes) :
          /\ points[i] = <<0, 0, 0>>
          /\ result.lanes[i].evals = 0
          /\ result.lanes[j].r <= FractalEps
          /\ result.lanes[j].evals >= 1
          /\ result.dist[j].val = 0

\* C18: in every step of a Mandelbulb or Julia call, a lane that is not
\* active (r > bailout or r <= eps) keeps its z, dr and r, so it is not
\* active afterwards either; a round is made only while fewer than
\* max_iterations rounds were made and some lane is active, so the number
\* of rounds never exceeds max_iterations.
C18_LaneMasking ==
    [][InKernel =>
         /\ \A i \in 1..Len(result.lanes) :
               ~Active(result.lanes[i].r, resolved.val["bailout"]) =>
                  /\ result'.lanes[i] = result.lanes[i]
                  /\ ~Active(result'.lanes[i].r, resolved.val["bailout"])
         /\ result'.rounds <= resolved.val["max_iterations"]
         /\ result'.rounds # result.rounds =>
               /\ result'.rounds = result.rounds + 1
               /\ AnyActive(result.lanes, resolved.val["bailout"])
         /\ ~AnyActive(result.lanes, resolved.val["bailout"]) =>
               KernelReturned']_vars

\* the loop was left before max_iterations rounds, after a round in which
\* one lane was updated and another was skipped
C18_Witness ==
    /\ KernelReturned
    /\ result.rounds >= 1
    /\ result.rounds < resolved.val["max_iterations"]
    /\ \E i, j \in 1..Len(result.lanes) :
          /\ result.lanes[i].evals = 0
          /\ result.lanes[i].r > resolved.val["bailout"]
          /\ result.lanes[j].evals = result.rounds

\* C20 (as stated): the exponent used in every round of a Mandelbulb or
\* Julia call is the power of the resolved node, which is the caller's
\* power when the caller gives one.
C20_AsStated ==
    InKernel /\ "power" \in DOMAIN resolved.val =>
       \A k \in 1..Len(result.used) : result.used[k] = resolved.val["power"]

Did(kind) == \E k \in 1..Len(jlog) : jlog[k][1] = kind

\* C17: when kaolin is not installed and marching tetrahedra is requested,
\* no jitter is drawn, no Delaunay triangulation is built, the shape is
\* never evaluated, no mesh is returned and nothing is exported, and once
\* the method has been entered the program has ended with the RuntimeError
\* that reports the missing packages.
C17_MissingCollaborator ==
    Did("request") /\ args.method = "mt" /\ "kaolin" \notin files =>
       /\ ~Did("jitter") /\ ~Did("delaunay") /\ ~Did("evaluate")
       /\ ~Did("mesh") /\ ~Did("export")
       /\ outputs = {} /\ field = << >>
       /\ jpc \in {"mt", "crashed"}
       /\ jpc = "crashed" => jerr.err = "RuntimeError"

\* the tetrahedral path was requested with an output file, kaolin is
\* missing, and the program has ended
C17_Witness ==
    /\ Did("request") /\ args.method = "mt" /\ "kaolin" \notin files
    /\ args.output # ""
    /\ jpc = "crashed"

\* C21: evaluating a plane node always succeeds; when the normal has no
\* length the value at every point p is exactly p.y + offset, and for any
\* other normal n it is p . (n / |n|) + offset (here: within 0.01 of the
\* quotient (p . n) / |n| + offset, whatever the length of n).
C21_PlaneFallback ==
    "called" \in pc /\ spec["type"] = "sdf_plane" =>
       /\ result.ok
       /\ LET n == IF "normal" \in DOMAIN spec THEN spec["normal"]
                   ELSE <<0, 1000, 0>>
              offset == IF "offset" \in DOMAIN spec THEN spec["offset"] ELSE 0
          IN  \A i \in 1..Len(points) :
                 IF n = <<0, 0, 0>>
                 THEN result.vals[i] = points[i][2] + offset
                 ELSE Abs(result.vals[i] - offset
                          - (points[i][1] * n[1] + points[i][2] * n[2]
                             + points[i][3] * n[3]) \div Norm(n)) <= 10

\* a plane whose normal is (0, 0, 0) has been evaluated at a point whose y
\* is not zero
C21_Witness ==
    /\ "called" \in pc
    /\ spec["type"] = "sdf_plane"
    /\ "normal" \in DOMAIN spec
    /\ spec["normal"] = <<0, 0, 0>>
    /\ \E i \in 1..Len(points) : points[i][2] # 0 /\ result.vals[i] # 0

\* C22: the value hash_vec3 returns for a row of three lattice indices lies
\* in [-1, 1], also when the 64-bit products and the shift wrap, and a
\* second call on the same row returns the same value.
C22_HashRange ==
    /\ "called" \in pc =>
          /\ result.vals[1] >= -Unit
          /\ result.vals[1] <= Unit
    /\ "again" \in pc => again.vals = result.vals

\* both calls were made on a row whose first line wraps: the seed is
\* negative although all three indices are positive
C22_Witness ==
    /\ "again" \in pc
    /\ \A c \in 1..3 : points[1][c] > 0
    /\ result.seed[8] >= 128
    /\ result.vals[1] < 0

\* the keys each evaluator takes from params with params[key]
KernelReads ==
    [sdf_sphere |-> {"radius"},
     sdf_plane |-> {"normal", "offset"},
     sdf_round_box |-> {"half_extent", "radius"},
     sdf_sphere_sine |-> {"radius", "displacement_freq",
                          "displacement_axis_amp", "displacement_amp"},
     sdf_fbm_noise |-> {"half_extent", "corner_radius", "offset", "octaves",
                        "frequency", "gain", "blend", "warp_matrix",
                        "noise_variant"},
     sdf_fbm_noise_sphere |-> {"offset", "octaves", "frequency", "gain",
                               "blend", "warp_matrix", "noise_variant"},
     sdf_menger_sponge |-> {"half_size", "iterations"},
     sdf_capped_cylinder |-> {"radius", "half_height"},
     sdf_mandelbulb |-> {"power", "max_iterations", "bailout",
                         "solid_radius"},
     sdf_julia |-> {"constant", "max_iterations", "bailout", "solid_radius"},
     sdf_union |-> {},
     sdf_intersection |-> {},
     sdf_difference |-> {}]

\* C23: every node of a tree merge_defaults returns carries translate,
\* scale and every key the evaluator of its type reads, whatever keys the
\* caller wrote; every registered type has an evaluator in this table.
C23_DefaultsCoverKernel ==
    /\ DOMAIN KernelReads = SDF_EVALUATORS
    /\ resolved.ok =>
          \A p \in Paths(resolved.val) :
             KernelReads[NodeAt(resolved.val, p)["type"]]
                \cup {"translate", "scale"}
                \subseteq DOMAIN NodeAt(resolved.val, p)

\* a node of the type with the most keys was resolved although the caller
\* wrote none of them, and so was a tree with a child
C23_Witness ==
    /\ resolved.ok
    /\ \/ spec["type"] = "sdf_fbm_noise" /\ DOMAIN spec = {"type", "material"}
       \/ \E p \in Paths(resolved.val) :
             p # << >> /\ DOMAIN NodeAt(spec, p) = {"type"}

\* two objects of the same kind with the same keys and the same references
SameObject(o, p) ==
    /\ o.kind = p.kind
    /\ IF o.kind = "dict"
       THEN /\ DOMAIN o.items = DOMAIN p.items
            /\ \A k \in DOMAIN o.items :
                  /\ DOMAIN o.items[k] = DOMAIN p.items[k]
                  /\ o.items[k] = p.items[k]
       ELSE o.items = p.items

\* C24: after any calls of merge_defaults and evaluate_shape, whether they
\* returned or raised, every object that existed before the first call (the
\* caller's dicts and lists at every depth, BASE_DEFAULTS and
\* DEFAULT_SHAPE_PARAMS with their lists) is as it was, the caller's tree
\* and the tables read as before, and every resolution returned the tree
\* the first one did.
C24_Frame ==
    /\ \A a \in 1..Len(resolved.h0) :
          SameObject(resolved.h[a], resolved.h0[a])
    /\ Deref(resolved.h, Ref(resolved.spec)) = spec
    /\ Deref(resolved.h, Ref(resolved.base)) = BASE_DEFAULTS
    /\ Deref(resolved.h, Ref(resolved.params)) = DEFAULT_SHAPE_PARAMS
    /\ \A i \in 1..Len(again) :
          IF again[i].call = "merge_defaults"
          THEN /\ again[i].ok = merge_defaults(spec).ok
               /\ again[i].ok => again[i].val = merge_defaults(spec).val
          ELSE /\ again[i].ok = evaluate_shape(points, spec).ok
               /\ ~again[i].ok =>
                     again[i].err = evaluate_shape(points, spec).err

\* a tree with a child and a translate list of its own was resolved and
\* then evaluated, and a call on a tree with a bad child has raised
C24_Witness ==
    /\ Len(again) = 2
    /\ \/ /\ again[1].ok /\ again[2].ok
          /\ again[1].call = "merge_defaults"
          /\ again[2].call = "evaluate_shape"
          /\ "children" \in DOMAIN spec
          /\ "translate" \in DOMAIN spec
       \/ /\ ~again[1].ok /\ ~again[2].ok
          /\ "children" \in DOMAIN spec
          /\ again[2].call = "evaluate_shape"
          /\ again[2].err = "InvalidScale"

====
